---------------------------- MODULE Spec2Model ----------------------------
(***************************************************************************)
(* A model of launch/runtime.py: the persistent shell session              *)
(* (SetupRuntime), its background stream reader, the PS1 marker protocol   *)
(* (CmdOutputMetadata) and the container lifecycle.                         *)
(*                                                                         *)
(* Text is modelled as a sequence of symbols.  One symbol stands for one   *)
(* character of the stream; the two sentinels and each JSON document that  *)
(* can appear between them are symbols of their own:                        *)
(*   "n"        a newline                                                   *)
(*   "x", "oK"  ordinary output characters ("oK": printed by command K)     *)
(*   "s"        a character printed before the call at hand started         *)
(*   "B", "E"   CMD_OUTPUT_PS1_BEGIN.strip(), CMD_OUTPUT_PS1_END.strip()    *)
(*   "pK","fK","iK"  the JSON object bash draws in the prompt in directory  *)
(*              /dK (K = 0: in /): "pK" with exit status 0 ("p2": 2), "fK"  *)
(*              with exit status 2, "iK" after an interrupt                 *)
(*   "j.."      other JSON documents a command may print between sentinels  *)
(*   "m1","m2"  the two bytes of a two-byte UTF-8 character "M"             *)
(*   "cK"       the text of command K;  "^C" the interrupt byte \x03        *)
(* Time is counted in ticks of 0.05 s.                                      *)
(***************************************************************************)
EXTENDS Integers, Sequences, FiniteSets, TLC

(***************************************************************************)
(* Bounds of the model.                                                     *)
(***************************************************************************)
MaxLen == 5          \* longest text drawn as input of the pure functions
MaxCalls == 2        \* send_command calls made on one session
MaxTimeout == 2      \* largest caller timeout, in ticks
MaxOutput == 1       \* output pieces a command writes before it ends or hangs
MaxCleanups == 3     \* explicit cleanup() calls on one session
MaxCommits == 1      \* commit() calls on one session

(***************************************************************************)
(* Program constants.                                                       *)
(***************************************************************************)
TIMEOUT_EXIT_CODE == 124
DEFAULT_EXIT_CODE == -1
POLL_INTERVAL == 2       \* queue.get(timeout=0.1): 0.1 s in ticks
KILL_TIMEOUT == 100      \* kill_timeout = 5.0: 5 s in ticks
RECV_SIZE == 4096

None == "None"
TIMEOUT_MARKER == <<"n", "T", "n">>   \* "\n**Exited due to timeout**\n"

Min(a, b) == IF a < b THEN a ELSE b

RECURSIVE SeqsUpTo(_, _)
SeqsUpTo(S, k) ==
    IF k = 0 THEN {<< >>}
    ELSE LET shorter == SeqsUpTo(S, k - 1)
         IN  shorter \cup {Append(s, t) : s \in {u \in shorter : Len(u) = k - 1}, t \in S}

(***************************************************************************)
(* JSON.  JsonDoc(t) is what json.loads returns for the document t:        *)
(* kind is the Python type of the value, keys/val the members of an        *)
(* object.  Every other symbol is not JSON.                                 *)
(***************************************************************************)
PromptFields == {"exit_code", "username", "hostname", "working_dir", "py_interpreter_path"}

PromptDoc(code, dir) ==
    [kind |-> "dict", keys |-> PromptFields,
     val |-> [k \in PromptFields |->
                CASE k = "exit_code" -> code
                  [] k = "username" -> "root"
                  [] k = "hostname" -> "host"
                  [] k = "working_dir" -> dir
                  [] OTHER -> "/usr/bin/python"]]

OtherDoc(kind, keys, code) ==
    [kind |-> kind, keys |-> keys,
     val |-> [k \in PromptFields |-> IF k = "exit_code" THEN code ELSE "v"]]

JsonSymbols ==
    {"p1", "p2", "p3", "f0", "f1", "f3", "i0", "i1", "i2", "i3",
     "jK", "jL", "jS", "jI", "jN", "jU", "jM", "jF"}

JsonDoc(t) ==
    CASE t = "p1" -> PromptDoc("0", "/d1")
      [] t = "p2" -> PromptDoc("2", "/d2")
      [] t = "p3" -> PromptDoc("0", "/d3")
      [] t = "f0" -> PromptDoc("2", "/")
      [] t = "f1" -> PromptDoc("2", "/d1")
      [] t = "f3" -> PromptDoc("2", "/d3")
      [] t = "i0" -> PromptDoc("130", "/")
      [] t = "i1" -> PromptDoc("130", "/d1")
      [] t = "i2" -> PromptDoc("130", "/d2")
      [] t = "i3" -> PromptDoc("130", "/d3")
      [] t = "jK" -> OtherDoc("dict", {"exit_code", "pid"}, "0")    \* an unknown key
      [] t = "jL" -> OtherDoc("list", {}, "")                       \* [1]
      [] t = "jS" -> OtherDoc("int", {}, "")                        \* 3
      [] t = "jI" -> OtherDoc("dict", {"exit_code"}, "inf")         \* {"exit_code": Infinity}
      [] t = "jN" -> OtherDoc("dict", {"exit_code"}, "abc")         \* {"exit_code": "abc"}
      [] t = "jU" -> OtherDoc("dict", {"exit_code"}, "None")        \* {"exit_code": null}
      [] t = "jF" -> OtherDoc("dict", {"exit_code"}, "2.7")         \* {"exit_code": 2.7}
      [] OTHER    -> OtherDoc("dict", {"working_dir"}, "")          \* "jM": no exit_code

Whitespace == {"n"}

RECURSIVE lstrip(_)
lstrip(s) == IF s # << >> /\ Head(s) \in Whitespace THEN lstrip(Tail(s)) ELSE s

RECURSIVE rstrip(_)
rstrip(s) ==
    IF s # << >> /\ s[Len(s)] \in Whitespace THEN rstrip(SubSeq(s, 1, Len(s) - 1)) ELSE s

strip(s) == rstrip(lstrip(s))

\* json.loads(text) succeeds: the text, outer whitespace aside, is one document.
json_loads_ok(text) == Len(strip(text)) = 1 /\ strip(text)[1] \in JsonSymbols

json_loads(text) == JsonDoc(strip(text)[1])

(***************************************************************************)
(* int(float(str(v))) for the values an exit_code member can hold.         *)
(***************************************************************************)
int_float_str(v) ==
    CASE v = "0"   -> [err |-> "none", int |-> 0]
      [] v = "2"   -> [err |-> "none", int |-> 2]
      [] v = "130" -> [err |-> "none", int |-> 130]
      [] v = "2.7" -> [err |-> "none", int |-> 2]
      [] v = "inf" -> [err |-> "OverflowError", int |-> 0]
      [] OTHER     -> [err |-> "ValueError", int |-> 0]

CmdOutputMetadata(code, user, host, dir, py) ==
    [exit_code |-> code, username |-> user, hostname |-> host,
     working_dir |-> dir, py_interpreter_path |-> py]

NoMetadata == CmdOutputMetadata(DEFAULT_EXIT_CODE, None, None, None, None)


(***************************************************************************)
(* chunk.decode("utf-8", errors="ignore"): a complete two-byte character   *)
(* decodes to "M", a byte of an incomplete one is dropped.                  *)
(***************************************************************************)
RECURSIVE decode(_)
decode(chunk) ==
    IF chunk = << >> THEN << >>
    ELSE LET whole == Head(chunk) = "m1" /\ Len(chunk) >= 2 /\ chunk[2] = "m2"
             char == IF whole THEN <<"M">>
                     ELSE IF Head(chunk) \in {"m1", "m2"} THEN << >>
                     ELSE <<Head(chunk)>>
         IN  char \o decode(SubSeq(chunk, IF whole THEN 3 ELSE 2, Len(chunk)))

\* accumulated_output += chunk.decode("utf-8", errors="ignore")
accumulate(accumulated_output, chunk) == accumulated_output \o decode(chunk)

(***************************************************************************)
(* CMD_OUTPUT_METADATA_PS1_REGEX.finditer(output): "^B(.*?)E" under        *)
(* DOTALL | MULTILINE.  A match starts at a "B" that begins a line and     *)
(* ends at the first "E" after it; the scan resumes after the match.       *)
(* start/end are Python's 0-based offsets, end exclusive.                  *)
(***************************************************************************)
LineStart(text, p) == p = 1 \/ text[p - 1] = "n"

\* the least element of a set of positions, 0 for the empty set
Least(ps) == IF ps = {} THEN 0 ELSE CHOOSE p \in ps : \A q \in ps : p <= q

FirstEnd(text, p) == Least({e \in (p + 1)..Len(text) : text[e] = "E"})

FirstStart(text, from) ==
    Least({p \in from..Len(text) :
              text[p] = "B" /\ LineStart(text, p) /\ FirstEnd(text, p) # 0})

Match(text, p, e) == [start |-> p - 1, end |-> e, group1 |-> SubSeq(text, p + 1, e - 1)]

RECURSIVE finditer(_, _)
MatchesFrom(text, p, e) ==
    IF p = 0 THEN << >> ELSE <<Match(text, p, e)>> \o finditer(text, e + 1)

finditer(text, from) ==
    MatchesFrom(text, FirstStart(text, from), FirstEnd(text, FirstStart(text, from)))

\* a variant that counts every sentinel pair as a match
AnySpanParses(m) == TRUE

JsonParses(m) == json_loads_ok(m.group1)

matches_ps1_metadata(output) == SelectSeq(finditer(output, 1), JsonParses)

(***************************************************************************)
(* CmdOutputMetadata.from_ps1_match.  raises names the exception that      *)
(* leaves the method ("none": it returns metadata).                         *)
(***************************************************************************)
Member(doc, k) == IF k \in doc.keys THEN doc.val[k] ELSE None

\* lines 103-107
ProcessedExitCode(doc, conv) ==
    IF doc.kind = "dict" /\ "exit_code" \in doc.keys /\ conv.err = "none"
    THEN conv.int ELSE DEFAULT_EXIT_CODE

MetadataOf(doc, conv) ==
    IF doc.kind \notin {"dict", "list"}
    THEN [raises |-> "AttributeError", metadata |-> NoMetadata]
    ELSE IF doc.kind = "dict" /\ "exit_code" \in doc.keys /\ conv.err = "OverflowError"
    THEN [raises |-> "OverflowError", metadata |-> NoMetadata]
    ELSE IF doc.kind # "dict" \/ ~(doc.keys \subseteq PromptFields)
    THEN [raises |-> "TypeError", metadata |-> NoMetadata]
    ELSE [raises |-> "none",
          metadata |-> CmdOutputMetadata(ProcessedExitCode(doc, conv),
                                         Member(doc, "username"), Member(doc, "hostname"),
                                         Member(doc, "working_dir"),
                                         Member(doc, "py_interpreter_path"))]

ExitCodeConversion(doc) == int_float_str(doc.val["exit_code"])

from_ps1_match(m) == MetadataOf(json_loads(m.group1), ExitCodeConversion(json_loads(m.group1)))

(***************************************************************************)
(* SetupRuntime._combine_outputs_between_matches.                          *)
(***************************************************************************)
Slice(s, from0, to0) == SubSeq(s, from0 + 1, to0)    \* Python's s[from0:to0]

RECURSIVE join_segments(_, _, _)
join_segments(pane, ms, i) ==
    IF i > Len(ms) - 1 THEN << >>
    ELSE (IF i > 1 THEN <<"n">> ELSE << >>)
         \o Slice(pane, ms[i].end + 1, ms[i + 1].start)
         \o join_segments(pane, ms, i + 1)

\* a variant that returns only what lies between the last two matches
combine_outputs_strictly_between(pane_content, ps1_matches) ==
    IF Len(ps1_matches) = 1 THEN Slice(pane_content, 0, ps1_matches[1].start)
    ELSE IF Len(ps1_matches) = 0 THEN pane_content
    ELSE Slice(pane_content, ps1_matches[Len(ps1_matches) - 1].end,
               ps1_matches[Len(ps1_matches)].start)

combine_outputs_between_matches(pane_content, ps1_matches) ==
    IF Len(ps1_matches) = 1 THEN Slice(pane_content, 0, ps1_matches[1].start)
    ELSE IF Len(ps1_matches) = 0 THEN pane_content
    ELSE join_segments(pane_content, ps1_matches, 1) \o <<"n">>

(***************************************************************************)
(* The end of SetupRuntime._read_raw_output, after its polling loop: the   *)
(* (output, metadata) decoded from the accumulated text.  found = FALSE    *)
(* stands for metadata None.                                                *)
(***************************************************************************)
\* a variant that decodes the first match instead of the last
FirstMetadata(ps1_matches) ==
    IF ps1_matches = << >> THEN [raises |-> "none", metadata |-> NoMetadata]
    ELSE from_ps1_match(ps1_matches[1])

LastMetadata(ps1_matches) ==
    IF ps1_matches = << >> THEN [raises |-> "none", metadata |-> NoMetadata]
    ELSE from_ps1_match(ps1_matches[Len(ps1_matches)])

Decoded(accumulated_output, ps1_matches, last) ==
    [raises |-> last.raises,
     found |-> ps1_matches # << >>,
     metadata |-> last.metadata,
     output |-> IF last.raises # "none" THEN << >>
                ELSE combine_outputs_between_matches(accumulated_output, ps1_matches)]

DecodedWith(accumulated_output, ps1_matches) ==
    Decoded(accumulated_output, ps1_matches, LastMetadata(ps1_matches))

decode_accumulated(accumulated_output) ==
    DecodedWith(accumulated_output, matches_ps1_metadata(accumulated_output))

(***************************************************************************)
(* send_command, step 1: the payload written to the socket.                *)
(***************************************************************************)
endswith_newline(command) == command # << >> /\ command[Len(command)] = "n"

\* a variant that appends a newline to every command
append_newline(command) == command \o <<"n">>

normalize_command(command) ==
    IF ~endswith_newline(command) THEN command \o <<"n">> ELSE command


(***************************************************************************)
(* State.                                                                   *)
(***************************************************************************)
VARIABLES
    pure,       \* the pure functions: [input, op, out]
    queue,      \* SetupRuntime.output_queue: the chunks put and not yet got
    chan,       \* bytes the container wrote that recv has not returned yet
    reader,     \* the _stream_output thread: "running", "eof" or "error"
    shell,      \* the container's bash: [stdin, running, outLeft, intr, cwd]
    caller,     \* per calling thread, its send_command frame
    results,    \* what send_command returned or raised since the last call started
    calls,      \* number of send_command calls started
    config,     \* what is explored: [threads, calls, timeouts, ticks]
    life,       \* construction and teardown: the SetupRuntime object and its container
    loop,       \* a stage of the agent (organize_setup, organize_test_cmd,
                \* generate_log_parser): the locals of its conversation loop
    node        \* another node of the workflow (select_base_image, save_result,
                \* save_organize_result): its inputs and its locals

vars == <<pure, queue, chan, reader, shell, caller, results, calls, config, life, loop, node>>

sessionVars == <<queue, chan, reader, shell, caller, results, calls, config>>

Callers == {1, 2}

\* config.threads: the threads that call send_command; config.calls: how many
\* calls they make in all; config.timeouts: the timeouts they pass;
\* config.ticks: "unit" when time passes tick by tick, "jump" when it passes
\* in one step up to the end of the wait in progress; config.stale: the
\* chunks in the queue when the first call starts; config.multi: the
\* payloads hold two commands
NoConfig == [threads |-> {}, calls |-> 0, timeouts |-> {}, ticks |-> "unit", stale |-> << >>,
             multi |-> FALSE]

IdleFrame ==
    [pc |-> "idle", call |-> 0, payload |-> << >>, timeout |-> 0,
     phase |-> "none", acc |-> << >>, acc1 |-> << >>, output |-> << >>,
     readerAtStart |-> "running", trace |-> << >>,
     elapsed |-> 0, readElapsed |-> 0, getElapsed |-> 0]

\* shell.cwd: the directory of the one bash of the session, 0 for / and K
\* for /dK
IdleShell == [stdin |-> << >>, running |-> 0, outLeft |-> 0, intr |-> FALSE, cwd |-> 0]

\* life.object: "none" (not constructed), "init" (in __init__), "partial"
\* (__init__ raised before it set self.stopped), "ready" (constructed);
\* life.step: the steps of __init__ done; life.stopped: self.stopped;
\* life.container: "running", "exited", "stopped" or "removed";
\* life.cleanups: the explicit cleanup() calls made; life.deleted: __del__
\* has run; life.stops, life.removes: the container.stop() and
\* container.remove() calls made; life.commits: the commit() calls made;
\* life.images: the images they created; life.raised: what cleanup() raised
NoLife == [object |-> "none", step |-> 0, stopped |-> FALSE, container |-> "running",
           cleanups |-> 0, deleted |-> FALSE, stops |-> 0, removes |-> 0,
           commits |-> 0, images |-> 0, raised |-> "none"]

\* no stage is running
NoLoop == [stage |-> "none"]

\* no other node is running
NoNode == [fn |-> "none"]

SessionIdle ==
    /\ queue = << >>
    /\ chan = << >>
    /\ reader = "running"
    /\ shell = IdleShell
    /\ caller = [c \in Callers |-> IdleFrame]
    /\ results = << >>
    /\ calls = 0

(***************************************************************************)
(* The pure functions applied to drawn texts.  A text is a concatenation   *)
(* of at most MaxLen pieces.                                                *)
(***************************************************************************)
Pieces ==
    {<<"x">>, <<"n">>, <<"B">>, <<"E">>, <<"B", "p1", "E">>,
     <<"B", "n", "p2", "n", "E">>, <<"B", "jK", "E">>}

RECURSIVE Flatten(_)
Flatten(ss) == IF ss = << >> THEN << >> ELSE Head(ss) \o Flatten(Tail(ss))

PureInputs == {Flatten(ps) : ps \in SeqsUpTo(Pieces, MaxLen)}

PureInit ==
    /\ pure \in {[input |-> t, op |-> "none", out |-> << >>] : t \in PureInputs}
    /\ SessionIdle
    /\ config = NoConfig
    /\ life = NoLife
    /\ loop = NoLoop
    /\ node = NoNode

\* _read_raw_output's decoding of an accumulated text
PureDecode ==
    /\ pure.op = "none"
    /\ pure' = [pure EXCEPT !.op = "read", !.out = decode_accumulated(pure.input)]
    /\ UNCHANGED <<sessionVars, life, loop, node>>

\* send_command's normalisation of a command
PureNormalize ==
    /\ pure.op = "none"
    /\ pure' = [pure EXCEPT !.op = "normalize", !.out = normalize_command(pure.input)]
    /\ UNCHANGED <<sessionVars, life, loop, node>>

PureNext == PureDecode \/ PureNormalize

SpecPure == PureInit /\ [][PureNext]_vars

\* The decoder applied to texts that hold one marker around each JSON
\* document, bare or padded with newlines, alone or after output and an
\* earlier prompt.
MarkerTexts ==
    {before \o <<"B">> \o pad \o <<doc>> \o pad \o <<"E">> :
        before \in {<< >>, <<"x", "n">>, <<"B", "p1", "E", "n">>},
        pad \in {<< >>, <<"n">>},
        doc \in JsonSymbols}

MarkerInit ==
    /\ pure \in {[input |-> t, op |-> "none", out |-> << >>] : t \in MarkerTexts}
    /\ SessionIdle
    /\ config = NoConfig
    /\ life = NoLife
    /\ loop = NoLoop
    /\ node = NoNode

SpecMarker == MarkerInit /\ [][PureDecode]_vars

\* The accumulation of _read_raw_output applied to drawn chunks: the bytes
\* of a stream as recv cut them.  pure.input are the chunks still queued,
\* pure.read the chunks got, pure.out the accumulated text.
MaxChunks == 3           \* most chunks of a drawn stream

ChunkBytes == {"x", "m1", "m2"}

Chunks == SeqsUpTo(ChunkBytes, 2) \ {<< >>}

ChunkInit ==
    /\ pure \in {[input |-> q, op |-> "none", out |-> << >>, read |-> << >>] :
                    q \in SeqsUpTo(Chunks, MaxChunks)}
    /\ SessionIdle
    /\ config = NoConfig
    /\ life = NoLife
    /\ loop = NoLoop
    /\ node = NoNode

\* lines 222-223: a chunk is got and its decoding appended
ChunkGet ==
    /\ pure.input # << >>
    /\ pure' = [input |-> Tail(pure.input), op |-> "get",
                out |-> accumulate(pure.out, Head(pure.input)),
                read |-> Append(pure.read, Head(pure.input))]
    /\ UNCHANGED <<sessionVars, life, loop, node>>

SpecChunks == ChunkInit /\ [][ChunkGet]_vars


(***************************************************************************)
(* CommandResult.to_observation.  The text of an output is a sequence of   *)
(* characters, one symbol per class of the ANSI_ESCAPE pattern:            *)
(*   "e"  ESC (\x1B)           "["  the CSI introducer                      *)
(*   "0"  a parameter byte [0-?]                                            *)
(*   "A"  a byte of [@-Z\\-_], which also is a final byte [@-~]             *)
(*   "m"  a final byte [@-~] outside [@-Z\\-_] and other than "["           *)
(*   "r"  a carriage return    "n"  a newline, in no class                  *)
(*   "S"  the text "....stripped due to length....\n"                       *)
(* Lengths are counted in units of 2048 characters.                         *)
(***************************************************************************)
MaxText == 5             \* longest output drawn as input of to_observation

STRIP_THRESHOLD == 4     \* 1024 * 8 characters
STRIP_KEEP == 2          \* 1024 * 4 characters

TwoCharFinal == {"A"}
ParameterBytes == {"0"}
IntermediateBytes == {}
FinalBytes == {"A", "m", "["}
STRIPPED_MARKER == <<"S">>

\* the first position from p on whose character is not in S
RECURSIVE SkipWhile(_, _, _)
SkipWhile(text, p, S) ==
    IF p <= Len(text) /\ text[p] \in S THEN SkipWhile(text, p + 1, S) ELSE p

\* the end of the match of ANSI_ESCAPE at position p, 0 when there is none
AnsiMatchEnd(text, p) ==
    IF text[p] # "e" \/ p = Len(text) THEN 0
    ELSE IF text[p + 1] \in TwoCharFinal THEN p + 1
    ELSE IF text[p + 1] # "[" THEN 0
    ELSE LET q == SkipWhile(text, SkipWhile(text, p + 2, ParameterBytes), IntermediateBytes)
         IN  IF q <= Len(text) /\ text[q] \in FinalBytes THEN q ELSE 0

\* ANSI_ESCAPE.sub("", text), from position p on
RECURSIVE ansi_sub(_, _)
ansi_sub(text, p) ==
    IF p > Len(text) THEN << >>
    ELSE LET end == AnsiMatchEnd(text, p)
         IN  (IF end = 0 THEN <<text[p]>> ELSE << >>)
                \o ansi_sub(text, IF end = 0 THEN p + 1 ELSE end + 1)

\* text.replace("\r", "")
remove_cr(text) == SelectSeq(text, LAMBDA ch : ch # "r")

\* the output as to_observation renders it: escapes stripped, carriage
\* returns removed, the middle cut out of a long text
sanitize(text, truncate) ==
    LET output == remove_cr(ansi_sub(text, 1))
    IN  IF Len(output) > STRIP_THRESHOLD /\ truncate
        THEN SubSeq(output, 1, STRIP_KEEP) \o STRIPPED_MARKER
                \o SubSeq(output, Len(output) - STRIP_KEEP + 1, Len(output))
        ELSE output

\* CommandResult(output, metadata): metadata is << >> for None and
\* <<m>> for the CmdOutputMetadata m
CommandResult(output, metadata) == [output |-> output, metadata |-> metadata]

\* the f-strings of to_observation around the rendered output
Rendering(output, metadata) ==
    IF metadata = << >> THEN <<"n">> \o output \o <<"n">>
    ELSE LET m == metadata[1]
         IN  output \o <<"n", m.username, "@", m.hostname, ":", m.working_dir, " $", "n",
                         "n", "exit code: ", ToString(m.exit_code), "n">>

to_observation(self, truncate) ==
    Rendering(sanitize(self.output, truncate), self.metadata)

OutputChars == {"e", "[", "0", "A", "m", "r", "n"}

OutputTexts == SeqsUpTo(OutputChars, MaxText)

SomeMetadata == CmdOutputMetadata(0, "root", "host", "/", "/usr/bin/python")

\* pure.input is the CommandResult, pure.out what was computed from it
SanitizeInit ==
    /\ pure \in {[input |-> CommandResult(t, m), op |-> "none", out |-> << >>] :
                    t \in OutputTexts, m \in {<< >>, <<SomeMetadata>>}}
    /\ SessionIdle
    /\ config = NoConfig
    /\ life = NoLife
    /\ loop = NoLoop
    /\ node = NoNode

\* result.to_observation()
Observe ==
    /\ pure.op = "none"
    /\ pure' = [pure EXCEPT !.op = "to_observation",
                            !.out = to_observation(pure.input, TRUE)]
    /\ UNCHANGED <<sessionVars, life, loop, node>>

\* to_observation of a result whose output is the text an earlier
\* to_observation rendered
ObserveAgain ==
    /\ pure.op = "to_observation"
    /\ pure' = [pure EXCEPT !.op = "again",
                            !.input = CommandResult(sanitize(pure.input.output, TRUE),
                                                    pure.input.metadata),
                            !.out = to_observation(
                                       CommandResult(sanitize(pure.input.output, TRUE),
                                                     pure.input.metadata), TRUE)]
    /\ UNCHANGED <<sessionVars, life, loop, node>>

SanitizeNext == Observe \/ ObserveAgain

SpecSanitize == SanitizeInit /\ [][SanitizeNext]_vars


(***************************************************************************)
(* The container's bash, as configured by SetupRuntime.__init__: it runs   *)
(* the lines it reads one after the other and draws the PS1 marker after   *)
(* each.  What a command prints, whether it ends and whether it dies on    *)
(* an interrupt are the command's choice.  Commands 1 and 3 are            *)
(* "cd /dK && pwd" (the directory changes, exit status 0), command 2 is    *)
(* "ls /nonexistent" (the directory stays, exit status 2).                  *)
(***************************************************************************)
CommandWord(k) == CASE k = 1 -> "c1" [] k = 2 -> "c2" [] OTHER -> "c3"

CommandOf(word) == CASE word = "c1" -> 1 [] word = "c2" -> 2 [] OTHER -> 3

OutputSymbol(k) == CASE k = 1 -> "o1" [] k = 2 -> "o2" [] OTHER -> "o3"

\* $?: the exit status of command k
ExitStatus(k) == IF k = 2 THEN "2" ELSE "0"

\* the directory of bash once command k has started in directory cwd
ChangeDir(k, cwd) == IF k = 2 THEN cwd ELSE k

\* $(pwd) in directory cwd
pwd(cwd) == CASE cwd = 0 -> "/" [] cwd = 1 -> "/d1" [] OTHER -> "/d3"

\* the object of the prompt drawn in directory cwd after command k ended
EndedPrompt(k, cwd) ==
    CASE k = 2 /\ cwd = 0 -> "f0"
      [] k = 2 /\ cwd = 1 -> "f1"
      [] k = 2 -> "f3"
      [] cwd = 1 -> "p1"
      [] OTHER -> "p3"

\* the object of the prompt drawn in directory cwd after an interrupt
InterruptedPrompt(cwd) == CASE cwd = 0 -> "i0" [] cwd = 1 -> "i1" [] OTHER -> "i3"

\* the text of PS1: CMD_OUTPUT_PS1_BEGIN + json + CMD_OUTPUT_PS1_END + "\n"
ps1(doc) == <<"n", "B", "n", doc, "n", "E", "n">>

\* what command k may write in one piece: a line of output, or a block that
\* looks like a marker and holds an alien JSON object or no JSON at all
OutputPieces(k) ==
    {<<OutputSymbol(k), "n">>, <<"n", "B", "jK", "E", "n">>, <<"n", "B", "x", "E", "n">>}

RECURSIVE IndexOf(_, _, _)
IndexOf(s, t, i) == IF i > Len(s) THEN 0 ELSE IF s[i] = t THEN i ELSE IndexOf(s, t, i + 1)

\* The session is in use: a call is in flight or another call will be made.
InUse == calls < config.calls \/ \E c \in DOMAIN caller : caller[c].pc # "idle"

\* bash reads the next line of its input and starts the command on it
ShellRun ==
    /\ InUse
    /\ reader = "running"
    /\ shell.running = 0
    /\ IndexOf(shell.stdin, "n", 1) > 1
    /\ LET nl == IndexOf(shell.stdin, "n", 1)
       IN  shell' = [shell EXCEPT !.stdin = SubSeq(shell.stdin, nl + 1, Len(shell.stdin)),
                                  !.running = CommandOf(shell.stdin[1]),
                                  !.outLeft = MaxOutput,
                                  !.cwd = ChangeDir(CommandOf(shell.stdin[1]), shell.cwd)]
    /\ UNCHANGED <<pure, queue, chan, reader, caller, results, calls, config, life, loop, node>>

\* the running command writes a piece of output
ShellOutput ==
    /\ InUse
    /\ reader = "running"
    /\ shell.running > 0
    /\ shell.outLeft > 0
    /\ \E piece \in OutputPieces(shell.running) : chan' = chan \o piece
    /\ shell' = [shell EXCEPT !.outLeft = @ - 1]
    /\ UNCHANGED <<pure, queue, reader, caller, results, calls, config, life, loop, node>>

\* the running command ends and bash draws the prompt
ShellFinish ==
    /\ InUse
    /\ reader = "running"
    /\ shell.running > 0
    /\ chan' = chan \o ps1(EndedPrompt(shell.running, shell.cwd))
    /\ shell' = [shell EXCEPT !.running = 0, !.outLeft = 0]
    /\ UNCHANGED <<pure, queue, reader, caller, results, calls, config, life, loop, node>>

\* the terminal delivers a received \x03: the running command dies of it and
\* bash draws the prompt, or an idle bash redraws its prompt
ShellSigint ==
    /\ InUse
    /\ reader = "running"
    /\ shell.intr
    /\ chan' = chan \o ps1(InterruptedPrompt(shell.cwd))
    /\ shell' = [shell EXCEPT !.running = 0, !.outLeft = 0, !.intr = FALSE]
    /\ UNCHANGED <<pure, queue, reader, caller, results, calls, config, life, loop, node>>

\* the running command ignores the interrupt
ShellIgnoreSigint ==
    /\ InUse
    /\ reader = "running"
    /\ shell.intr
    /\ shell.running > 0
    /\ shell' = [shell EXCEPT !.intr = FALSE]
    /\ UNCHANGED <<pure, queue, chan, reader, caller, results, calls, config, life, loop, node>>

(***************************************************************************)
(* SetupRuntime._stream_output, the reader thread.                         *)
(***************************************************************************)
\* a variant that puts the chunk at the head of the queue
ReaderRecvAtHead ==
    /\ InUse
    /\ reader = "running"
    /\ chan # << >>
    /\ LET got == Min(Len(chan), RECV_SIZE)
       IN  /\ queue' = <<SubSeq(chan, 1, got)>> \o queue
           /\ chan' = SubSeq(chan, got + 1, Len(chan))
    /\ UNCHANGED <<pure, reader, shell, caller, results, calls, config, life, loop, node>>

\* recv returns the bytes at hand, at most RECV_SIZE, and they are put
ReaderRecv ==
    /\ InUse
    /\ reader = "running"
    /\ chan # << >>
    /\ LET got == Min(Len(chan), RECV_SIZE)
       IN  /\ queue' = Append(queue, SubSeq(chan, 1, got))
           /\ chan' = SubSeq(chan, got + 1, Len(chan))
    /\ UNCHANGED <<pure, reader, shell, caller, results, calls, config, life, loop, node>>

\* recv returns b"": the channel is closed and the thread ends
ReaderEof ==
    /\ InUse
    /\ reader = "running"
    /\ chan = << >>
    /\ reader' = "eof"
    /\ UNCHANGED <<pure, queue, chan, shell, caller, results, calls, config, life, loop, node>>

\* recv raises: the thread ends, what was in flight is lost
ReaderError ==
    /\ InUse
    /\ reader = "running"
    /\ reader' = "error"
    /\ chan' = << >>
    /\ UNCHANGED <<pure, queue, shell, caller, results, calls, config, life, loop, node>>


(***************************************************************************)
(* SetupRuntime.send_command and _read_raw_output, per calling thread.     *)
(* A frame's pc: "idle" (no call), "drain" (at output_queue.empty()),      *)
(* "drainget" (in the draining get()), "send" (before sock.send),          *)
(* "get" (in output_queue.get(timeout=0.1)), "interrupt" (before the       *)
(* send of \x03).  A step that returns appends to results what the call    *)
(* returned or raised.  A frame's trace lists what the call has done on    *)
(* the socket and the queue: "command" and "^C" for a sock.send of the     *)
(* command and of the interrupt byte, "read" for a start of                *)
(* _read_raw_output.                                                        *)
(***************************************************************************)
Returned(f, path, output, metadata) ==
    [call |-> f.call, kind |-> "result", path |-> path, output |-> output,
     metadata |-> metadata, elapsed |-> f.elapsed, timeout |-> f.timeout,
     readerAtStart |-> f.readerAtStart, trace |-> f.trace,
     acc1 |-> IF f.phase = "primary" THEN f.acc ELSE f.acc1,
     acc2 |-> IF f.phase = "primary" THEN << >> ELSE f.acc]

Raised(f, exception) ==
    [Returned(f, exception, << >>, NoMetadata) EXCEPT !.kind = "exception"]

\* a variant that keeps the exit code of the marker found by the secondary read
FinishKeepingExitCode(f, r) ==
    IF r.raises # "none"
    THEN [frame |-> IdleFrame, ret |-> <<Raised(f, r.raises)>>]
    ELSE IF f.phase = "primary"
    THEN IF r.found
         THEN [frame |-> IdleFrame,
               ret |-> <<Returned(f, "success", r.output, r.metadata)>>]
         ELSE [frame |-> [f EXCEPT !.pc = "interrupt", !.output = r.output,
                                   !.acc1 = f.acc],
               ret |-> << >>]
    ELSE [frame |-> IdleFrame,
          ret |-> <<Returned(f, "timeout", f.output \o r.output \o TIMEOUT_MARKER,
                             IF r.found THEN r.metadata
                             ELSE CmdOutputMetadata(TIMEOUT_EXIT_CODE,
                                                    None, None, None, None))>>]

\* the part of send_command that follows a read which decoded to r
Finish(f, r) ==
    IF r.raises # "none"
    THEN [frame |-> IdleFrame, ret |-> <<Raised(f, r.raises)>>]
    ELSE IF f.phase = "primary"
    THEN IF r.found
         THEN [frame |-> IdleFrame,
               ret |-> <<Returned(f, "success", r.output, r.metadata)>>]
         ELSE [frame |-> [f EXCEPT !.pc = "interrupt", !.output = r.output,
                                   !.acc1 = f.acc],
               ret |-> << >>]
    ELSE [frame |-> IdleFrame,
          ret |-> <<Returned(f, "timeout", f.output \o r.output \o TIMEOUT_MARKER,
                             IF r.found
                             THEN [r.metadata EXCEPT !.exit_code = TIMEOUT_EXIT_CODE]
                             ELSE CmdOutputMetadata(TIMEOUT_EXIT_CODE,
                                                    None, None, None, None))>>]

\* a variant whose timeout path returns what the secondary read captured only
AfterReadSecondaryOnly(f) ==
    Finish([f EXCEPT !.output = << >>], decode_accumulated(f.acc))

\* lines 229-237, then lines 264-282
AfterRead(f) == Finish(f, decode_accumulated(f.acc))

\* a variant whose secondary read runs for the caller's timeout and then for
\* the kill timeout again
ReadLimitWithTimeout(f) ==
    IF f.phase = "primary" THEN f.timeout ELSE f.timeout + 2 * KILL_TIMEOUT

ReadLimit(f) == IF f.phase = "primary" THEN f.timeout ELSE KILL_TIMEOUT

\* lines 220-228: the loop goes on unless the text holds a match (break) or
\* the time is up (while time.time() - start_time < timeout)
LoopTest(f, matched) ==
    IF ~matched /\ f.readElapsed < ReadLimit(f)
    THEN [frame |-> [f EXCEPT !.pc = "get", !.getElapsed = 0], ret |-> << >>]
    ELSE AfterRead(f)

\* lines 217-218: a read starts
StartRead(f, phase) ==
    LoopTest([f EXCEPT !.phase = phase, !.acc = << >>, !.readElapsed = 0,
                       !.trace = Append(@, "read")], FALSE)

Commands(k) == {<<CommandWord(k)>>, <<CommandWord(k), "n">>}

\* the commands a call may be given: one command, or command k and the
\* failing command 2 on two lines
Payloads(k) ==
    IF config.multi
    THEN {<<CommandWord(k), "n", CommandWord(2)>>, <<CommandWord(k), "n", CommandWord(2), "n">>}
    ELSE Commands(k)

\* a variant that holds a lock: a call starts only when no other is in flight
SendCommandSerialized(c) ==
    /\ c \in config.threads
    /\ caller[c].pc = "idle"
    /\ \A b \in Callers : caller[b].pc = "idle"
    /\ calls < config.calls
    /\ calls' = calls + 1
    /\ results' = << >>
    /\ \E command \in Payloads(calls + 1), timeout \in config.timeouts :
          caller' = [caller EXCEPT ![c] =
                        [IdleFrame EXCEPT !.pc = "drain", !.call = calls + 1,
                                          !.payload = normalize_command(command),
                                          !.timeout = timeout,
                                          !.readerAtStart = reader]]
    /\ UNCHANGED <<pure, queue, chan, reader, shell, config, life, loop, node>>

\* a thread calls send_command(command, timeout)
SendCommand(c) ==
    /\ c \in config.threads
    /\ caller[c].pc = "idle"
    /\ calls < config.calls
    /\ calls' = calls + 1
    /\ results' = << >>
    /\ \E command \in Payloads(calls + 1), timeout \in config.timeouts :
          caller' = [caller EXCEPT ![c] =
                        [IdleFrame EXCEPT !.pc = "drain", !.call = calls + 1,
                                          !.payload = normalize_command(command),
                                          !.timeout = timeout,
                                          !.readerAtStart = reader]]
    /\ UNCHANGED <<pure, queue, chan, reader, shell, config, life, loop, node>>

\* a variant that sends the command without emptying the queue
DrainTestSkipped(c) ==
    /\ caller[c].pc = "drain"
    /\ caller' = [caller EXCEPT ![c].pc = "send"]
    /\ UNCHANGED <<pure, queue, chan, reader, shell, results, calls, config, life, loop, node>>

\* line 258: while not self.output_queue.empty()
DrainTest(c) ==
    /\ caller[c].pc = "drain"
    /\ caller' = [caller EXCEPT ![c].pc = IF queue = << >> THEN "send" ELSE "drainget"]
    /\ UNCHANGED <<pure, queue, chan, reader, shell, results, calls, config, life, loop, node>>

\* line 259: self.output_queue.get(), which waits while the queue is empty
DrainGet(c) ==
    /\ caller[c].pc = "drainget"
    /\ queue # << >>
    /\ queue' = Tail(queue)
    /\ caller' = [caller EXCEPT ![c].pc = "drain"]
    /\ UNCHANGED <<pure, chan, reader, shell, results, calls, config, life, loop, node>>

\* sock.send(bytes) is called
Sending(f, bytes) ==
    [f EXCEPT !.trace = Append(@, IF bytes = <<"^C">> THEN "^C" ELSE "command")]

\* sock.send on an open channel delivers the bytes; on a closed one it
\* raises (BrokenPipeError, OSError) or the bytes go nowhere
SocketSend(c, bytes, thenRead) ==
    \/ /\ reader = "running"
       /\ shell' = IF bytes = <<"^C">> THEN [shell EXCEPT !.intr = TRUE]
                   ELSE [shell EXCEPT !.stdin = @ \o bytes]
       /\ caller' = [caller EXCEPT ![c] = thenRead.frame]
       /\ results' = results \o thenRead.ret
    \/ /\ reader # "running"
       /\ caller' = [caller EXCEPT ![c] = thenRead.frame]
       /\ results' = results \o thenRead.ret
       /\ UNCHANGED shell
    \/ /\ reader # "running"
       /\ caller' = [caller EXCEPT ![c] = IdleFrame]
       /\ results' = Append(results, Raised(Sending(caller[c], bytes), "OSError"))
       /\ UNCHANGED shell

\* lines 261-263: the command is sent and the primary read starts
Transmit(c) ==
    /\ caller[c].pc = "send"
    /\ SocketSend(c, caller[c].payload,
                  StartRead(Sending(caller[c], caller[c].payload), "primary"))
    /\ UNCHANGED <<pure, queue, chan, reader, calls, config, life, loop, node>>

\* lines 222-226: get returns a chunk, it is decoded and the text searched
Get(c) ==
    /\ caller[c].pc = "get"
    /\ queue # << >>
    /\ queue' = Tail(queue)
    /\ \E f \in {[caller[c] EXCEPT !.acc = accumulate(@, Head(queue))]} :
       \E next \in {LoopTest(f, matches_ps1_metadata(f.acc) # << >>)} :
          /\ caller' = [caller EXCEPT ![c] = next.frame]
          /\ results' = results \o next.ret
    /\ UNCHANGED <<pure, chan, reader, shell, calls, config, life, loop, node>>

\* lines 227-228: get raises queue.Empty after its 0.1 s
GetEmpty(c) ==
    /\ caller[c].pc = "get"
    /\ queue = << >>
    /\ caller[c].getElapsed >= POLL_INTERVAL
    /\ \E next \in {LoopTest(caller[c], FALSE)} :
          /\ caller' = [caller EXCEPT ![c] = next.frame]
          /\ results' = results \o next.ret
    /\ UNCHANGED <<pure, queue, chan, reader, shell, calls, config, life, loop, node>>

\* a variant that starts the secondary read without sending the interrupt
InterruptUnsent(c) ==
    /\ caller[c].pc = "interrupt"
    /\ caller' = [caller EXCEPT ![c] = StartRead(caller[c], "secondary").frame]
    /\ results' = results \o StartRead(caller[c], "secondary").ret
    /\ UNCHANGED <<pure, queue, chan, reader, shell, calls, config, life, loop, node>>

\* lines 268-271: the interrupt is sent and the secondary read starts
Interrupt(c) ==
    /\ caller[c].pc = "interrupt"
    /\ SocketSend(c, <<"^C">>, StartRead(Sending(caller[c], <<"^C">>), "secondary"))
    /\ UNCHANGED <<pure, queue, chan, reader, calls, config, life, loop, node>>

\* Time passes.  The steps of a call take no time: time passes only while
\* every call in flight waits on the empty queue.
Waiting(c) ==
    \/ caller[c].pc = "idle"
    \/ caller[c].pc = "drainget" /\ queue = << >>
    \/ caller[c].pc = "get" /\ queue = << >> /\ caller[c].getElapsed < POLL_INTERVAL

\* the time until the get in progress raises queue.Empty and the loop ends,
\* if nothing arrives: its gets end every POLL_INTERVAL from the start of this one
LastPoll(f, sinceStart) ==
    IF ReadLimit(f) - sinceStart <= POLL_INTERVAL THEN POLL_INTERVAL - f.getElapsed
    ELSE ((ReadLimit(f) - sinceStart + POLL_INTERVAL - 1) \div POLL_INTERVAL) * POLL_INTERVAL
         - f.getElapsed

Remaining(f) == LastPoll(f, f.readElapsed - f.getElapsed)

Step ==
    IF config.ticks = "unit" THEN 1
    ELSE Least({Remaining(caller[c]) : c \in {b \in Callers : caller[b].pc = "get"}})

Pass(f, d) ==
    IF f.pc # "get" THEN f
    ELSE [f EXCEPT !.elapsed = @ + d, !.readElapsed = @ + d,
                   !.getElapsed = IF config.ticks = "unit" THEN @ + 1
                                  ELSE IF d = Remaining(f) THEN POLL_INTERVAL
                                  ELSE (@ + d) % POLL_INTERVAL]

Tick ==
    /\ \A c \in Callers : Waiting(c)
    /\ \E c \in Callers : caller[c].pc = "get"
    /\ caller' = [c \in Callers |-> Pass(caller[c], Step)]
    /\ UNCHANGED <<pure, queue, chan, reader, shell, results, calls, config, life, loop, node>>

Init ==
    /\ pure = [input |-> << >>, op |-> "none", out |-> << >>]
    /\ SessionIdle
    /\ config = [threads |-> {1}, calls |-> MaxCalls, timeouts |-> {0, MaxTimeout},
                 ticks |-> "jump", stale |-> << >>, multi |-> FALSE]
    /\ life = NoLife
    /\ loop = NoLoop
    /\ node = NoNode

\* the steps of a session whose channel stays open
OpenNext ==
    \/ \E c \in Callers :
          \/ SendCommand(c)
          \/ DrainTest(c)
          \/ DrainGet(c)
          \/ Transmit(c)
          \/ Get(c)
          \/ GetEmpty(c)
          \/ Interrupt(c)
    \/ Tick
    \/ ShellRun
    \/ ShellOutput
    \/ ShellFinish
    \/ ShellSigint
    \/ ShellIgnoreSigint
    \/ ReaderRecv

Next ==
    \/ OpenNext
    \/ ReaderEof
    \/ ReaderError

Spec == Init /\ [][Next]_vars

\* what arrived after the session's previous call returned: late output of
\* an earlier command and the prompt drawn in /d2 when it was interrupted
StaleChunk == <<"s", "n">> \o ps1("i2")

\* one call, with time passing tick by tick; the queue may hold a stale chunk
TimedInit ==
    /\ pure = [input |-> << >>, op |-> "none", out |-> << >>]
    /\ queue \in {<< >>, <<StaleChunk>>}
    /\ chan = << >>
    /\ reader = "running"
    /\ shell = IdleShell
    /\ caller = [c \in Callers |-> IdleFrame]
    /\ results = << >>
    /\ calls = 0
    /\ config = [threads |-> {1}, calls |-> 1, timeouts |-> 0..MaxTimeout, ticks |-> "unit",
                 stale |-> << >>, multi |-> FALSE]
    /\ life = NoLife
    /\ loop = NoLoop
    /\ node = NoNode

SpecTimed == TimedInit /\ [][Next]_vars


\* one call, started with the stale chunk waiting in the queue; the
\* configuration records the start
StaleInit ==
    /\ pure = [input |-> << >>, op |-> "none", out |-> << >>]
    /\ queue = <<StaleChunk>>
    /\ config = [threads |-> {1}, calls |-> 1, timeouts |-> 0..MaxTimeout, ticks |-> "unit",
                 stale |-> queue, multi |-> FALSE]
    /\ chan = << >>
    /\ reader = "running"
    /\ shell = IdleShell
    /\ caller = [c \in Callers |-> IdleFrame]
    /\ results = << >>
    /\ calls = 0
    /\ life = NoLife
    /\ loop = NoLoop
    /\ node = NoNode

SpecStale == StaleInit /\ [][Next]_vars


\* one call whose payload is two commands on two lines
MultiInit ==
    /\ pure = [input |-> << >>, op |-> "none", out |-> << >>]
    /\ queue \in {<< >>, <<StaleChunk>>}
    /\ chan = << >>
    /\ reader = "running"
    /\ shell = IdleShell
    /\ caller = [c \in Callers |-> IdleFrame]
    /\ results = << >>
    /\ calls = 0
    /\ config = [threads |-> {1}, calls |-> 1, timeouts |-> {0, MaxTimeout}, ticks |-> "jump",
                 stale |-> queue, multi |-> TRUE]
    /\ life = NoLife
    /\ loop = NoLoop
    /\ node = NoNode

SpecMulti == MultiInit /\ [][Next]_vars


\* two threads call send_command on one session whose channel stays open
ConcInit ==
    /\ pure = [input |-> << >>, op |-> "none", out |-> << >>]
    /\ SessionIdle
    /\ config = [threads |-> Callers, calls |-> MaxCalls, timeouts |-> {MaxTimeout},
                 ticks |-> "jump", stale |-> << >>, multi |-> FALSE]
    /\ life = NoLife
    /\ loop = NoLoop
    /\ node = NoNode

SpecConc == ConcInit /\ [][OpenNext]_vars


(***************************************************************************)
(* Construction and teardown: SetupRuntime.__init__, cleanup and __del__.  *)
(***************************************************************************)
\* start_session has run the container and calls SetupRuntime(container)
Construct ==
    /\ life.object = "none"
    /\ life' = [life EXCEPT !.object = "init"]
    /\ UNCHANGED <<pure, sessionVars, loop, node>>

\* the steps of __init__: attach_socket, then the two send_command calls
\* that set up the prompt and install git, then self.stopped = False.  Each
\* of the three calls returns or raises; a raise leaves the object without
\* its stopped attribute.
InitSteps == 3

InitStep ==
    /\ life.object = "init"
    /\ \/ life' = [life EXCEPT !.step = @ + 1,
                               !.object = IF life.step + 1 = InitSteps THEN "ready" ELSE @]
       \/ life' = [life EXCEPT !.object = "partial"]
    /\ UNCHANGED <<pure, sessionVars, loop, node>>

\* the container's main process ends by itself
ContainerExit ==
    /\ life.container = "running"
    /\ life' = [life EXCEPT !.container = "exited"]
    /\ UNCHANGED <<pure, sessionVars, loop, node>>

\* what one run of cleanup() leaves: stop() raises, or stop() returns and
\* remove() raises, or both return and self.stopped is set
cleanup(l) ==
    IF l.object = "partial" THEN {[l EXCEPT !.raised = "AttributeError"]}
    ELSE IF l.stopped THEN {l}
    ELSE {[l EXCEPT !.stops = @ + 1],
          [l EXCEPT !.stops = @ + 1, !.removes = @ + 1,
                    !.container = IF @ = "removed" THEN @ ELSE "stopped"],
          [l EXCEPT !.stops = @ + 1, !.removes = @ + 1, !.container = "removed",
                    !.stopped = TRUE]}

\* the owner of a constructed session calls cleanup()
Cleanup ==
    /\ life.object = "ready"
    /\ ~life.deleted
    /\ life.cleanups < MaxCleanups
    /\ life' \in cleanup([life EXCEPT !.cleanups = @ + 1])
    /\ UNCHANGED <<pure, sessionVars, loop, node>>

\* the owner of a constructed session calls commit(): the container is
\* snapshotted, or container.commit raises because the container is gone
Commit ==
    /\ life.object = "ready"
    /\ ~life.deleted
    /\ life.commits < MaxCommits
    /\ life' = [life EXCEPT !.commits = @ + 1,
                            !.images = IF life.container = "removed" THEN @ ELSE @ + 1]
    /\ UNCHANGED <<pure, sessionVars, loop, node>>

\* the object is collected: __del__ calls cleanup()
Del ==
    /\ life.object \in {"partial", "ready"}
    /\ ~life.deleted
    /\ life' \in cleanup([life EXCEPT !.deleted = TRUE])
    /\ UNCHANGED <<pure, sessionVars, loop, node>>

LifeInit ==
    /\ pure = [input |-> << >>, op |-> "none", out |-> << >>]
    /\ SessionIdle
    /\ config = NoConfig
    /\ life = NoLife
    /\ loop = NoLoop
    /\ node = NoNode

LifeNext == Construct \/ InitStep \/ ContainerExit \/ Cleanup \/ Commit \/ Del

SpecLife == LifeInit /\ [][LifeNext]_vars


(***************************************************************************)
(* The nodes that end a run: save_organize_result (save.py) and            *)
(* save_result (workflow.py).  node.trace lists the calls the node has     *)
(* made on the session and the language handler, in their order; life is   *)
(* the session the node was given.                                          *)
(***************************************************************************)
SaveNodes == {"save_organize_result", "save_result"}

\* state["instance"]["instance_id"], state["image_prefix"], state["platform"]
InstanceIds == {<<"a">>, <<"A">>, <<"a", "_", "_", "b">>}
ImagePrefixes == {"k1", "k2"}
Platforms == {"linux", "windows"}

\* state.get("success", False): AgentState starts with success = None
Successes == {"None", "False", "True"}

truthy(value) == value = "True"

\* str.lower()
lower(text) == [i \in DOMAIN text |-> IF text[i] = "A" THEN "a" ELSE text[i]]

\* str.replace("__", "_1776_")
RECURSIVE replace_dunder(_)
replace_dunder(text) ==
    IF Len(text) < 2 THEN text
    ELSE IF text[1] = "_" /\ text[2] = "_"
         THEN <<"_", "1776", "_">> \o replace_dunder(SubSeq(text, 3, Len(text)))
         ELSE <<text[1]>> \o replace_dunder(Tail(text))

\* the arguments of session.commit: save_organize_result passes the prefix
\* and the tag f"{instance_id}_{platform}"; save_result passes the key
\* NAMESPACE/sweb.eval.ARCH.instance_id, lowered and with "__" replaced,
\* and leaves the tag at its default
image_name(fn, image_prefix, instance_id, platform) ==
    IF fn = "save_organize_result"
    THEN [repository |-> <<image_prefix>>, tag |-> instance_id \o <<"_", platform>>]
    ELSE [repository |-> replace_dunder(<<"starryzhang", "/", "sweb.eval.", "x86_64", ".">>
                                           \o lower(instance_id)),
          tag |-> <<"latest">>]

\* the inputs of a save node and its locals at its start
StartSave(fn, success, exception, image_prefix, instance_id, platform, duration) ==
    [fn |-> fn, pc |-> "environment", success |-> success, exception |-> exception,
     image_prefix |-> image_prefix, instance_id |-> instance_id, platform |-> platform,
     duration |-> duration, trace |-> << >>,
     recorded |-> IF exception # None THEN <<exception>>
                  ELSE IF ~truthy(success)
                       THEN <<IF fn = "save_organize_result" THEN "Organize failed"
                              ELSE "Launch failed">>
                       ELSE << >>,
     docker_image |-> << >>,
     ret |-> [keys |-> {}, session |-> "unset"]]

\* a variant that commits whatever the success flag
after_environment_always(n) == "commit"

\* if state.get("success", False): the commit is made, or passed over
after_environment(n) == IF truthy(n.success) THEN "commit" ELSE "teardown"

\* language_handler.cleanup_environment(session, server) in its try block
SaveEnvironment ==
    /\ node.fn \in SaveNodes
    /\ node.pc = "environment"
    /\ \E raised \in BOOLEAN :
          node' = [node EXCEPT !.trace = Append(@, [call |-> "cleanup_environment",
                                                    image |-> << >>, raised |-> raised]),
                               !.pc = after_environment(node)]
    /\ UNCHANGED <<pure, sessionVars, life, loop>>

\* session.commit(image_name=key, ...) in its try block: the container is
\* snapshotted, or the call raises; save_organize_result keeps the image
\* name on success and the error text otherwise
SaveCommit ==
    /\ node.fn \in SaveNodes
    /\ node.pc = "commit"
    /\ \E raised \in (IF life.container = "removed" THEN {TRUE} ELSE BOOLEAN) :
       \E image \in {image_name(node.fn, node.image_prefix, node.instance_id,
                                node.platform)} :
          /\ life' = [life EXCEPT !.commits = @ + 1,
                                  !.images = IF raised THEN @ ELSE @ + 1]
          /\ node' = [node EXCEPT
                        !.trace = Append(@, [call |-> "commit", image |-> <<image>>,
                                             raised |-> raised]),
                        !.docker_image = IF node.fn = "save_organize_result" /\ ~raised
                                         THEN <<image>> ELSE @,
                        !.recorded = IF node.fn = "save_organize_result" /\ raised
                                     THEN Append(@, "Failed to commit image")
                                     ELSE @,
                        !.pc = "teardown"]
    /\ UNCHANGED <<pure, sessionVars, loop>>

\* session.cleanup() in its try block, and the return of the node; with no
\* session (state["session"] is None) the call raises and is logged
SaveTeardown ==
    /\ node.fn \in SaveNodes
    /\ node.pc = "teardown"
    /\ IF life.object = "none" THEN UNCHANGED life
       ELSE life' \in cleanup([life EXCEPT !.cleanups = @ + 1])
    /\ node' = [node EXCEPT
                  !.trace = Append(@, [call |-> "cleanup", image |-> << >>,
                                       raised |-> life.object = "none"]),
                  !.pc = "returned",
                  !.ret = [keys |-> IF node.fn = "save_organize_result"
                                    THEN {"session", "result"} ELSE {"session"},
                           session |-> None]]
    /\ UNCHANGED <<pure, sessionVars, loop>>

\* the session a save node is given: a constructed one whose container
\* runs or has exited, or none when the run failed before it had one
SaveSessions ==
    {[NoLife EXCEPT !.object = "ready", !.step = InitSteps, !.container = container] :
        container \in {"running", "exited"}}
    \cup {NoLife}

MaxDuration == 1         \* longest run, in minutes

SaveInit ==
    /\ pure = [input |-> << >>, op |-> "none", out |-> << >>]
    /\ SessionIdle
    /\ config = NoConfig
    /\ loop = NoLoop
    /\ life \in SaveSessions
    /\ node \in {StartSave(fn, success, exception, image_prefix, instance_id, platform, duration) :
                    fn \in SaveNodes, success \in Successes, exception \in {None, "e"},
                    image_prefix \in ImagePrefixes, instance_id \in InstanceIds,
                    platform \in Platforms, duration \in 0..MaxDuration}
    /\ truthy(node.success) => life.object = "ready"

SaveNext == SaveEnvironment \/ SaveCommit \/ SaveTeardown

SpecSave == SaveInit /\ [][SaveNext]_vars


(***************************************************************************)
(* The node that picks the base image: select_base_image (base_image.py).  *)
(* A reply of the agent is the sequence of the pieces of its text: the     *)
(* tags "<image>" and "</image>" and the names between them.               *)
(***************************************************************************)
MaxTrials == 7           \* most invocations of the agent followed
TRIALS == 5              \* while not base_image or trials < 5

\* language_handler.base_images
candidate_images == {<<"c1">>, <<"c2">>}

\* what the agent may answer: no block, a block with a name of the list or
\* with another name, a block never closed, two blocks
ImageReplies ==
    {<<"x">>,
     <<"x", "<image>", "c1", "</image>">>,
     <<"<image>", "z", "</image>", "x">>,
     <<"<image>", "c2">>,
     <<"<image>", "z", "</image>", "<image>", "c1", "</image>">>}

\* the positions of a piece in a text
Occurrences(text, piece) == {i \in DOMAIN text : text[i] = piece}

\* "<image>" in response.content
has_image_tag(content) == Occurrences(content, "<image>") # {}

\* content.split("<image>")[1].split("</image>")[0]: what follows the first
\* opening tag, up to the next opening tag, the first closing tag after it
\* or the end of the text
image_of(content) ==
    LET open == Least(Occurrences(content, "<image>"))
        stops == {i \in DOMAIN content :
                     i > open /\ content[i] \in {"<image>", "</image>"}}
        stop == IF stops = {} THEN Len(content) + 1 ELSE Least(stops)
    IN  SubSeq(content, open + 1, stop - 1)

\* the locals of select_base_image before its loop
StartSelect ==
    [fn |-> "select_base_image", pc |-> "loop", base_image |-> << >>, trials |-> 0,
     invoked |-> 0,
     messages |-> <<[role |-> "human", kind |-> "prompt", content |-> << >>]>>,
     ret |-> [keys |-> {}, base_image |-> << >>]]

\* while not base_image or trials < 5
select_condition(n) == n.base_image = << >> \/ n.trials < TRIALS

\* the dict select_base_image returns
SelectReturn(n) ==
    [n EXCEPT !.pc = "returned",
              !.ret = [keys |-> {"messages", "base_image"}, base_image |-> n.base_image]]

\* one iteration of the loop: the agent is invoked; a name of the list ends
\* the loop and the node, another answer is appended with a correction
SelectIterate ==
    /\ node.fn = "select_base_image"
    /\ node.pc = "loop"
    /\ select_condition(node)
    /\ node.trials < MaxTrials
    /\ \E content \in ImageReplies :
       \E asked \in {[node EXCEPT !.trials = @ + 1, !.invoked = @ + 1]} :
          node' =
             IF has_image_tag(content) /\ image_of(content) \in candidate_images
             THEN SelectReturn([asked EXCEPT !.base_image = <<image_of(content)>>])
             ELSE [asked EXCEPT
                     !.messages =
                        @ \o <<[role |-> "ai", kind |-> "response", content |-> content],
                               [role |-> "human",
                                kind |-> IF has_image_tag(content) THEN "not in list"
                                         ELSE "no block",
                                content |-> IF has_image_tag(content)
                                            THEN image_of(content) ELSE << >>]>>]
    /\ UNCHANGED <<pure, sessionVars, life, loop>>

SelectInit ==
    /\ pure = [input |-> << >>, op |-> "none", out |-> << >>]
    /\ SessionIdle
    /\ config = NoConfig
    /\ life = NoLife
    /\ loop = NoLoop
    /\ node = StartSelect

SpecSelect == SelectInit /\ [][SelectIterate]_vars


(***************************************************************************)
(* The conversation loops of the agent's stages: organize_setup            *)
(* (rebuild.py), organize_test_cmd (testall.py) and generate_log_parser    *)
(* (parselog.py).  A reply of the agent is the sequence of the tag blocks  *)
(* in its text, [tag, text] each; a turn of the conversation is a record   *)
(* [role, kind, reply, content].  The windows are counted in units of ten  *)
(* turns.                                                                   *)
(***************************************************************************)
MaxSteps == 4            \* largest max_steps a stage is called with
MaxElapsed == 2          \* the clock of a stage stops after so many minutes

SETUP_CONVERSATION_WINDOW == 4
VERIFY_CONVERSATION_WINDOW == 4
PARSELOG_CONVERSATION_WINDOW == 3
STAGE_TIMEOUT == 1       \* timeout, in minutes

Stages == {"setup", "verify", "parselog"}

CONVERSATION_WINDOW(stage) ==
    CASE stage = "setup" -> SETUP_CONVERSATION_WINDOW
      [] stage = "verify" -> VERIFY_CONVERSATION_WINDOW
      [] OTHER -> PARSELOG_CONVERSATION_WINDOW

\* the tags a stage's parse method looks for, in the order it tries them
TagOrder(stage) ==
    CASE stage = "setup" -> <<"command", "search", "submit">>
      [] stage = "verify" -> <<"submit", "python", "command", "search">>
      [] OTHER -> <<"submit", "test", "python", "analyze">>

Block(tag, text) == [tag |-> tag, text |-> text]

\* ActionParser.extract_tag_content: the text of the first block of the
\* tag in the response, None when the response has no such block
extract_tag_content(response, tag) ==
    LET at == {i \in DOMAIN response : response[i].tag = tag}
    IN  IF at = {} THEN None ELSE response[Least(at)].text

NoAction == [action |-> None, args |-> None]

\* SetupActionParser.parse, VerifyActionParser.parse and
\* ParseLogActionParser.parse, from the i-th tag of the order on: the
\* action of the first tag that has content, NoAction (None) when none has
RECURSIVE parse(_, _, _)
parse(stage, response, i) ==
    IF i > Len(TagOrder(stage)) THEN NoAction
    ELSE IF extract_tag_content(response, TagOrder(stage)[i]) # None
         THEN [action |-> TagOrder(stage)[i],
               args |-> extract_tag_content(response, TagOrder(stage)[i])]
         ELSE parse(stage, response, i + 1)

Turn(role, kind, reply, content) ==
    [role |-> role, kind |-> kind, reply |-> reply, content |-> content]

\* messages before the loop: SystemMessage(system_msg), HumanMessage(ReAct_prompt)
PrefixMessages ==
    <<Turn("system", "system_msg", << >>, << >>), Turn("human", "ReAct_prompt", << >>, << >>)>>

\* messages[-n:]
LastN(messages, n) ==
    IF n >= Len(messages) THEN messages
    ELSE SubSeq(messages, Len(messages) - n + 1, Len(messages))

\* a variant that keeps the oldest turns of the tail
context_oldest(stage, messages, prefix_messages, commands) ==
    LET head == SubSeq(messages, 1, prefix_messages)
        history == IF stage = "setup"
                   THEN <<Turn("human", "commands_history", << >>, commands)>>
                   ELSE << >>
    IN  IF Len(messages) < CONVERSATION_WINDOW(stage) + prefix_messages
        THEN head \o history \o SubSeq(messages, prefix_messages + 1, Len(messages))
        ELSE head \o history
                \o SubSeq(messages, prefix_messages + 1,
                          prefix_messages + CONVERSATION_WINDOW(stage))

\* a variant that sends the prefix and the window in every stage
context_plain(stage, messages, prefix_messages, commands) ==
    LET head == SubSeq(messages, 1, prefix_messages)
    IN  IF Len(messages) < CONVERSATION_WINDOW(stage) + prefix_messages
        THEN head \o SubSeq(messages, prefix_messages + 1, Len(messages))
        ELSE head \o LastN(messages, CONVERSATION_WINDOW(stage))

\* input_messages: what the stage sends to the agent
context(stage, messages, prefix_messages, commands) ==
    LET head == SubSeq(messages, 1, prefix_messages)
        history == IF stage = "setup"
                   THEN <<Turn("human", "commands_history", << >>, commands)>>
                   ELSE << >>
    IN  IF Len(messages) < CONVERSATION_WINDOW(stage) + prefix_messages
        THEN head \o history \o SubSeq(messages, prefix_messages + 1, Len(messages))
        ELSE head \o history \o LastN(messages, CONVERSATION_WINDOW(stage))

\* what the agent may reply in one invocation: no block, one block of a
\* tag of the stage, or a command block and a submit block
Replies(stage) ==
    {<< >>}
    \cup {<<Block(TagOrder(stage)[i], "a")>> : i \in DOMAIN TagOrder(stage)}
    \cup {<<Block("submit", "b")>>,
          <<Block("command", "a"), Block("submit", "b")>>}

\* what session.send_command may return: a short clean output, or a long
\* one with an escape sequence and a carriage return in it
SessionResults ==
    {CommandResult(<<"m">>, <<SomeMetadata>>),
     CommandResult(<<"e", "[", "0", "m", "A", "r", "m", "m", "A", "m">>, <<SomeMetadata>>)}

\* what one iteration meets outside the stage: result and raises, the
\* outcome of session.send_command; verdict, the answer of the judge
\* ("raise": its llm.invoke raised); parsed, what run_parser returns as
\* JSON text ("raise": it raised); dt, the minutes the iteration takes.
\* Only what the action of the iteration uses is varied.
Environments(l, action) ==
    LET judge == l.stage = "setup" /\ action = "submit"
        session == \/ action = "command"
                   \/ judge
                   \/ l.stage = "verify" /\ action = "python" /\ l.print_command # ""
        parser == l.stage # "setup" /\ action \in {"python", "test"}
    IN  [result : IF action = "command" THEN SessionResults
                  ELSE {CommandResult(<<"m">>, <<SomeMetadata>>)},
         raises : IF session THEN BOOLEAN ELSE {FALSE},
         verdict : IF judge THEN {"SUCCESS", "FAILURE", "raise"} ELSE {"FAILURE"},
         parsed : IF parser THEN {"{}", "{t}", "raise"} ELSE {"{}"},
         dt : {0, 1}]

\* the locals of a stage at the start of its loop
StartLoop(stage, max_steps, test_output) ==
    [stage |-> stage, pc |-> "loop", max_steps |-> max_steps, step |-> 0,
     messages |-> PrefixMessages, prefix_messages |-> Len(PrefixMessages),
     commands |-> << >>, answer |-> << >>, elapsed |-> 0,
     input |-> << >>, invoked |-> 0, verdicts |-> << >>, searched |-> 0, sent |-> << >>,
     test_output |-> test_output, test_status |-> "", parser |-> "",
     test_command |-> "", print_command |-> "", submitted_steps |-> 0,
     improved_parser |-> "", analysis_result |-> "", ran |-> << >>,
     ret |-> [keys |-> {}, exception |-> "none", success |-> FALSE,
              setup_commands |-> << >>]]

\* auto_catch: what the stage raised is returned as the one entry of a dict
Caught(l, exception) ==
    [l EXCEPT !.pc = "returned",
              !.ret = [keys |-> {"exception"}, exception |-> exception,
                       success |-> FALSE, setup_commands |-> << >>]]

\* bool(json.loads(test_status)) after the loop of organize_test_cmd
StatusFound(test_status) == test_status = "{t}"

\* a variant that answers with the first commands sent to the session
ReturnFirstSent(l) ==
    [l EXCEPT !.pc = "returned",
              !.ret = [keys |-> {"session", "messages", "commands", "setup_messages",
                                 "setup_commands", "success"},
                       exception |-> "none",
                       success |-> l.answer # << >>,
                       setup_commands |-> IF l.answer = << >> THEN << >>
                                          ELSE <<l.sent[1]>>]]

\* a variant that asks for the answer of an accepted submit
test_cmd_success_answered(l) ==
    /\ l.answer # << >>
    /\ l.parser # ""
    /\ StatusFound(l.test_status)

\* organize_test_cmd: bool((test_command or answer) and parser and test_status)
test_cmd_success(l) ==
    /\ (l.test_command # "" \/ l.answer # << >>)
    /\ l.parser # ""
    /\ StatusFound(l.test_status)

\* the dict a stage returns after its loop; generate_log_parser runs the
\* stored script once more on the test output before it
Return(l) ==
    [l EXCEPT !.pc = "returned",
              !.ran = IF l.stage = "parselog" /\ l.improved_parser # "" /\ l.test_output # << >>
                      THEN Append(@, l.improved_parser) ELSE @,
              !.ret = CASE l.stage = "setup" ->
                            [keys |-> {"session", "messages", "commands", "setup_messages",
                                       "setup_commands", "success"},
                             exception |-> "none",
                             success |-> l.answer # << >>,
                             setup_commands |-> l.answer]
                        [] l.stage = "verify" ->
                            [keys |-> {"messages", "verify_messages", "test_commands",
                                       "print_commands", "commands", "parser",
                                       "test_status", "success"},
                             exception |-> "none",
                             success |-> test_cmd_success(l),
                             setup_commands |-> << >>]
                        [] OTHER ->
                            [keys |-> {"messages", "improved_parser", "framework_detected",
                                       "analysis_result", "improved_test_status",
                                       "success", "test_output"},
                             exception |-> "none",
                             success |-> l.answer # << >> /\ l.improved_parser # "",
                             setup_commands |-> << >>]]

\* a variant that runs the loop once more than max_steps allows
loop_condition_inclusive(l) == l.step <= l.max_steps

\* while step < max_steps
loop_condition(l) == l.step < l.max_steps

\* time.time() - start_time > timeout * 60
deadline_passed(l) == l.elapsed > STAGE_TIMEOUT

\* a variant that asks the agent again without counting a step
InvokeUncounted(l, response, dt) ==
    [l EXCEPT !.input = context(l.stage, l.messages, l.prefix_messages, l.commands),
              !.invoked = @ + 1,
              !.messages = Append(@, Turn("ai", "response", response, << >>)),
              !.elapsed = Min(@ + dt, MaxElapsed)]

\* the start of an iteration: step += 1, the input is built, the agent is
\* invoked and its response appended
Invoke(l, response, dt) ==
    [l EXCEPT !.step = @ + 1,
              !.input = context(l.stage, l.messages, l.prefix_messages, l.commands),
              !.invoked = @ + 1,
              !.messages = Append(@, Turn("ai", "response", response, << >>)),
              !.elapsed = Min(@ + dt, MaxElapsed)]

\* a variant that puts the observation in the place of the reply
ObservedInPlace(l, kind, content) ==
    [l EXCEPT !.messages = Append(SubSeq(@, 1, Len(@) - 1),
                                  Turn("human", kind, << >>, content))]

\* messages.append(HumanMessage(...))
Observed(l, kind, content) ==
    [l EXCEPT !.messages = Append(@, Turn("human", kind, << >>, content))]

\* a variant whose format reminder ends the loop
parse_failure_stops(l) == Return(Observed(l, "reminder", <<"format">>))

\* the observation of a response that gave no action: the format reminder
parse_failure(l) == Observed(l, "reminder", <<"format">>)

\* session.send_command(command), as the stage sees it: l.sent are the
\* commands the stage has sent, l.verdicts the answers of the judge
Sent(l, command) == [l EXCEPT !.sent = Append(@, command)]

\* analyze_verification_with_llm: True for the answer SUCCESS, False for
\* another answer; when llm.invoke raised, the handler reads the unassigned
\* local `analysis`
analyze_verification_with_llm(verdict) ==
    CASE verdict = "raise" -> "UnboundLocalError"
      [] verdict = "SUCCESS" -> "True"
      [] OTHER -> "False"

\* a variant that takes the submitted commands as the answer unverified
submit_unverified(l, submitted, env) == Return([l EXCEPT !.answer = <<submitted>>])

\* organize_setup on observation.is_stop: the submitted commands are run
\* and the judge is asked; the loop ends on its approval and goes on with
\* the verification message otherwise
submit_verified(l, submitted, env) ==
    IF env.raises THEN Caught(Sent(l, submitted), "send_command")
    ELSE LET judged == [Sent(l, submitted) EXCEPT !.verdicts = Append(@, env.verdict)]
             verification_success == analyze_verification_with_llm(env.verdict)
         IN  CASE verification_success = "True" ->
                      Return([judged EXCEPT !.answer = <<submitted>>])
               [] verification_success = "False" ->
                      Observed(judged, "verification",
                               <<"submitted", submitted>> \o to_observation(env.result, TRUE))
               [] OTHER -> Caught(judged, verification_success)

\* one iteration of organize_setup
SetupIteration(l, response, env) ==
    LET action == parse(l.stage, response, 1)
        invoked == Invoke(l, response, env.dt)
    IN  CASE action.action = None -> parse_failure(invoked)
          [] action.action = "command" ->
                 IF env.raises
                 THEN Caught(Sent([invoked EXCEPT !.commands = Append(@, action.args)],
                                  action.args), "send_command")
                 ELSE Observed(Sent([invoked EXCEPT !.commands = Append(@, action.args)],
                                    action.args),
                               "observation", to_observation(env.result, TRUE))
          [] action.action = "search" ->
                 Observed([invoked EXCEPT !.searched = @ + 1], "observation",
                          <<"search", action.args>>)
          [] OTHER -> submit_verified(invoked, action.args, env)

\* a variant that keeps the rendered observation as the test output
command_output_rendered(l, result) ==
    [l EXCEPT !.test_output = to_observation(result, TRUE)]

\* organize_test_cmd: test_output = result.output
command_output(l, result) == [l EXCEPT !.test_output = result.output]

\* observation_for_verify_action on a submit
VerifySubmit(l, args) ==
    CASE l.submitted_steps = 0 ->
             Observed([l EXCEPT !.submitted_steps = 1, !.test_command = args],
                      "observation", <<"step 1", args>>)
      [] l.submitted_steps = 1 ->
             Observed([l EXCEPT !.submitted_steps = 2, !.print_command = args],
                      "observation", <<"step 2", args>>)
      [] l.submitted_steps = 2 ->
             IF l.parser # "" /\ l.test_status # ""
             THEN Return([l EXCEPT !.submitted_steps = 3, !.answer = <<"validated">>])
             ELSE Observed([l EXCEPT !.submitted_steps = 3], "observation",
                           <<"not validated">>)
      [] OTHER -> Caught([l EXCEPT !.submitted_steps = @ + 1], "AttributeError")

\* run_parser(script, test_output), as the stage sees it: l.ran are the
\* scripts the stage has had executed
Ran(l, script) == [l EXCEPT !.ran = Append(@, script)]

\* a variant that keeps the script without executing it
VerifyPythonStored(l, args, env) ==
    Observed([l EXCEPT !.parser = args], "observation", <<"saved">>)

\* observation_for_verify_action on a python action, and the loop's
\* parser = action.args after it
VerifyPython(l, args, env) ==
    LET printed == IF l.print_command # ""
                   THEN [Sent(l, l.print_command) EXCEPT !.test_output = env.result.output]
                   ELSE l
    IN  IF l.print_command # "" /\ env.raises THEN Caught(Sent(l, l.print_command), "send_command")
        ELSE IF env.parsed = "raise" THEN Caught(Ran(printed, args), "run_parser")
        ELSE Observed([Ran(printed, args) EXCEPT !.test_status = env.parsed, !.parser = args],
                      "observation", <<"python", env.parsed>>)

\* one iteration of organize_test_cmd
VerifyIteration(l, response, env) ==
    LET action == parse(l.stage, response, 1)
        invoked == Invoke(l, response, env.dt)
    IN  CASE action.action = None -> parse_failure(invoked)
          [] action.action = "command" ->
                 IF env.raises THEN Caught(Sent(invoked, action.args), "send_command")
                 ELSE Observed([command_output(Sent(invoked, action.args), env.result)
                                   EXCEPT !.commands = Append(@, action.args)],
                               "observation", to_observation(env.result, TRUE))
          [] action.action = "python" -> VerifyPython(invoked, action.args, env)
          [] action.action = "search" ->
                 Observed([invoked EXCEPT !.searched = @ + 1], "observation",
                          <<"search", action.args>>)
          [] OTHER -> VerifySubmit(invoked, action.args)

\* a variant that accepts a submit whether or not a script is stored
ParselogSubmitAny(l, args) == Return([l EXCEPT !.answer = <<args>>])

\* observation_for_parselog_action on a submit
ParselogSubmit(l, args) ==
    IF l.improved_parser = ""
    THEN Observed(l, "observation", <<"no parser">>)
    ELSE Return([l EXCEPT !.answer = <<args>>])

\* one iteration of generate_log_parser
ParselogIteration(l, response, env) ==
    LET action == parse(l.stage, response, 1)
        invoked == Invoke(l, response, env.dt)
    IN  CASE action.action = None -> parse_failure(invoked)
          [] action.action = "analyze" ->
                 Observed([invoked EXCEPT !.analysis_result = action.args],
                          "observation", <<"analysis", action.args>>)
          [] action.action = "python" ->
                 Observed([invoked EXCEPT !.improved_parser = action.args],
                          "observation", <<"saved">>)
          [] action.action = "test" ->
                 IF invoked.improved_parser = "" THEN Observed(invoked, "observation", <<"no parser">>)
                 ELSE IF invoked.test_output = << >>
                      THEN Observed(invoked, "observation", <<"no test output">>)
                      ELSE Observed(Ran(invoked, invoked.improved_parser),
                                    "observation", <<"test", env.parsed>>)
          [] OTHER -> ParselogSubmit(invoked, action.args)

\* the body of the while loop of the stage
Iteration(l, response, env) ==
    CASE l.stage = "setup" -> SetupIteration(l, response, env)
      [] l.stage = "verify" -> VerifyIteration(l, response, env)
      [] OTHER -> ParselogIteration(l, response, env)

\* a stage is called with max_steps; generate_log_parser has rerun the
\* print commands and holds their output, or none
LoopInit ==
    /\ pure = [input |-> << >>, op |-> "none", out |-> << >>]
    /\ SessionIdle
    /\ config = NoConfig
    /\ life = NoLife
    /\ node = NoNode
    /\ loop \in {StartLoop(stage, max_steps, test_output) :
                    stage \in Stages, max_steps \in 0..MaxSteps,
                    test_output \in {<< >>, <<"m">>}}

\* the loop runs one iteration
Iterate ==
    /\ loop.pc = "loop"
    /\ loop_condition(loop)
    /\ ~deadline_passed(loop)
    /\ \E response \in Replies(loop.stage) :
          \E env \in Environments(loop, parse(loop.stage, response, 1).action) :
             loop' = Iteration(loop, response, env)
    /\ UNCHANGED <<pure, sessionVars, life, node>>

\* the loop finds the deadline passed and breaks
Deadline ==
    /\ loop.pc = "loop"
    /\ loop_condition(loop)
    /\ deadline_passed(loop)
    /\ loop' = Return(loop)
    /\ UNCHANGED <<pure, sessionVars, life, node>>

\* a variant that treats the used-up steps as an error
ExhaustedRaises ==
    /\ loop.pc = "loop"
    /\ ~loop_condition(loop)
    /\ loop' = Caught(loop, "max_steps")
    /\ UNCHANGED <<pure, sessionVars, life, node>>

\* the loop finds the steps used up
Exhausted ==
    /\ loop.pc = "loop"
    /\ ~loop_condition(loop)
    /\ loop' = Return(loop)
    /\ UNCHANGED <<pure, sessionVars, life, node>>

LoopNext == Iterate \/ Deadline \/ Exhausted

SpecLoop == LoopInit /\ [][LoopNext]_vars


(***************************************************************************)
(* Claims about the marker decoder, checked under SpecPure.                *)
(***************************************************************************)
PureMatches == matches_ps1_metadata(pure.input)

DecodedOk == pure.op = "read" /\ pure.out.raises = "none"

\* every gap between consecutive matches, from the second character after
\* the earlier match to the start of the later one, each followed by a newline
RECURSIVE GapsWithNewlines(_, _, _)
GapsWithNewlines(text, ms, i) ==
    IF i >= Len(ms) THEN << >>
    ELSE SubSeq(text, ms[i].end + 2, ms[i + 1].start) \o <<"n">>
         \o GapsWithNewlines(text, ms, i + 1)

\* C4 (as amended): with exactly one valid match the output is the text
\* before that match; with two or more it is, for every pair of consecutive
\* valid matches, the text between them less its first character, each
\* followed by one newline; the text before the first match is left out.
C4_OutputOfMatches ==
    DecodedOk =>
        /\ Len(PureMatches) = 1 =>
              pure.out.output = SubSeq(pure.input, 1, PureMatches[1].start)
        /\ Len(PureMatches) >= 2 =>
              pure.out.output = GapsWithNewlines(pure.input, PureMatches, 1)

\* C4 (as claimed): with two or more valid matches the output is exactly the
\* text strictly between the second-to-last and the last valid match.
C4_Original ==
    DecodedOk =>
        /\ Len(PureMatches) = 1 =>
              pure.out.output = SubSeq(pure.input, 1, PureMatches[1].start)
        /\ Len(PureMatches) >= 2 =>
              pure.out.output = SubSeq(pure.input, PureMatches[Len(PureMatches) - 1].end + 1,
                                       PureMatches[Len(PureMatches)].start)

C4_Witness ==
    /\ DecodedOk
    /\ Len(PureMatches) >= 2
    /\ \E i \in DOMAIN pure.out.output : pure.out.output[i] = "x"

\* the JSON document of the last valid marker of the drawn text
LastMarkerDoc == JsonDoc(strip(PureMatches[Len(PureMatches)].group1)[1])

FirstMarkerDoc == JsonDoc(strip(PureMatches[1].group1)[1])

\* a JSON document from which CmdOutputMetadata can be built
WellFormedDoc(doc) ==
    /\ doc.kind = "dict"
    /\ doc.keys \subseteq PromptFields
    /\ "exit_code" \in doc.keys => doc.val["exit_code"] # "inf"

\* C5: when the accumulated text holds valid markers, the metadata returned
\* is that of the last of them; if decoding that one raises, no metadata of
\* an earlier marker is returned in its place.
C5_MetadataFromLastMarker ==
    (pure.op = "read" /\ PureMatches # << >>) =>
        /\ pure.out.found
        /\ pure.out.raises = "none" <=> WellFormedDoc(LastMarkerDoc)
        /\ pure.out.raises = "none" =>
              /\ \A k \in PromptFields \ {"exit_code"} :
                    pure.out.metadata[k]
                       = IF k \in LastMarkerDoc.keys THEN LastMarkerDoc.val[k] ELSE None
              /\ pure.out.metadata.exit_code =
                    IF /\ "exit_code" \in LastMarkerDoc.keys
                       /\ int_float_str(LastMarkerDoc.val["exit_code"]).err = "none"
                    THEN int_float_str(LastMarkerDoc.val["exit_code"]).int
                    ELSE DEFAULT_EXIT_CODE
        /\ pure.out.raises # "none" => pure.out.metadata = NoMetadata

C5_Witness ==
    /\ DecodedOk
    /\ Len(PureMatches) >= 2
    /\ FirstMarkerDoc # LastMarkerDoc
    /\ pure.out.metadata.working_dir = "/d2"

\* C10: the payload is the command when the command ends in a newline, and
\* the command followed by one newline when it does not.
C10_PayloadNewline ==
    pure.op = "normalize" =>
        IF pure.input # << >> /\ pure.input[Len(pure.input)] = "n"
        THEN pure.out = pure.input
        ELSE /\ Len(pure.out) = Len(pure.input) + 1
             /\ SubSeq(pure.out, 1, Len(pure.input)) = pure.input
             /\ pure.out[Len(pure.out)] = "n"

C10_Witness ==
    /\ pure.op = "normalize"
    /\ pure.input # << >>
    /\ pure.input[Len(pure.input)] # "n"
    /\ pure.out # pure.input
    /\ Len(pure.out) >= 2 /\ pure.out[Len(pure.out) - 1] # "n"


(***************************************************************************)
(* Claims about send_command, checked under Spec, SpecTimed and SpecConc.  *)
(***************************************************************************)
ResultsReturned == {results[i] : i \in DOMAIN results}

C2_Original ==
    \A r \in ResultsReturned :
        r.path \notin {"TypeError", "AttributeError", "OverflowError"}

\* the document of the last valid marker of a text
LastDocOf(text) ==
    json_loads(matches_ps1_metadata(text)[Len(matches_ps1_metadata(text))].group1)

\* C3: a call returns through the timeout path exactly when its primary read
\* found no valid marker, and the result then has exit code 124; its other
\* fields are absent when the secondary read found no valid marker either,
\* and are those of the secondary read's last marker when it found one.
C3_TimeoutMetadata ==
    \A r \in ResultsReturned :
        r.kind = "result" =>
            /\ r.path = "timeout" <=> matches_ps1_metadata(r.acc1) = << >>
            /\ r.path = "timeout" =>
                  /\ r.metadata.exit_code = TIMEOUT_EXIT_CODE
                  /\ \A k \in PromptFields \ {"exit_code"} :
                        r.metadata[k] = IF matches_ps1_metadata(r.acc2) = << >> THEN None
                                        ELSE Member(LastDocOf(r.acc2), k)

C3_Witness ==
    \E r \in ResultsReturned :
        /\ r.kind = "result"
        /\ r.path = "timeout"
        /\ matches_ps1_metadata(r.acc2) # << >>
        /\ LastDocOf(r.acc2).val["exit_code"] = "130"
        /\ r.metadata.working_dir = "/d1"
        /\ r.metadata.exit_code = TIMEOUT_EXIT_CODE

\* the text of a read before its first valid marker, all of it when it
\* holds none
BeforeFirstMarker(text) ==
    IF matches_ps1_metadata(text) = << >> THEN text
    ELSE SubSeq(text, 1, matches_ps1_metadata(text)[1].start)

\* what a read that accumulated the text contributes to the result
ReadOutput(text) ==
    IF Len(matches_ps1_metadata(text)) >= 2
    THEN GapsWithNewlines(text, matches_ps1_metadata(text), 1)
    ELSE BeforeFirstMarker(text)

\* C23 (as claimed): a timeout-path result is the text of the primary read,
\* then that of the secondary read, then the timeout marker; what either
\* read captured before a marker is in it, and it ends with the marker.
C23_Original ==
    \A r \in ResultsReturned :
        (r.kind = "result" /\ r.path = "timeout") =>
            \E kept \in {r.acc1 \o BeforeFirstMarker(r.acc2)} :
               /\ Len(r.output) >= Len(kept) + Len(TIMEOUT_MARKER)
               /\ SubSeq(r.output, 1, Len(kept)) = kept
               /\ SubSeq(r.output, Len(r.output) - Len(TIMEOUT_MARKER) + 1, Len(r.output))
                     = TIMEOUT_MARKER

\* C23 (amended): a timeout-path result is all the text of the primary
\* read, then the output of the secondary read, then the timeout marker.
\* The output of the secondary read is all its text when it holds no valid
\* marker and the text before the marker when it holds one; when it holds
\* two or more it is the text between consecutive markers, and what was
\* captured before the first of them is left out.
C23_TimeoutOutput ==
    \A r \in ResultsReturned :
        (r.kind = "result" /\ r.path = "timeout") =>
            r.output = r.acc1 \o ReadOutput(r.acc2) \o <<"n", "T", "n">>

\* a timeout-path result whose secondary read captured output of the
\* command and then two prompts: that output is not in the result, which
\* ends with the timeout marker
C23_Witness ==
    \E r \in ResultsReturned :
        /\ r.kind = "result"
        /\ r.path = "timeout"
        /\ Len(matches_ps1_metadata(r.acc2)) >= 2
        /\ BeforeFirstMarker(r.acc2) # << >>
        /\ BeforeFirstMarker(r.acc2)[1] = OutputSymbol(r.call)
        /\ \A i \in DOMAIN r.output : r.output[i] \notin {"o1", "o2", "o3"}
        /\ r.output[Len(r.output) - 1] = "T"

\* what a call that takes the timeout path does, in order: it sends the
\* command, reads, sends the interrupt byte, reads again
TimeoutTrace == <<"command", "read", "^C", "read">>

IsPrefix(s, t) == Len(s) <= Len(t) /\ s = SubSeq(t, 1, Len(s))

\* C24: a call sends the interrupt byte exactly when its primary read ended
\* without a valid marker, once, after it sent the command and ran the
\* primary read and before it starts the secondary read; a call whose
\* primary read found a valid marker sends no interrupt and reads no
\* second time.  (A send on a closed channel may raise: the call then ends
\* at that send.)
C24_InterruptIffNoMarker ==
    /\ \A r \in ResultsReturned :
          /\ IsPrefix(r.trace, TimeoutTrace)
          /\ Len(r.trace) >= 3 => matches_ps1_metadata(r.acc1) = << >>
          /\ r.kind = "result" =>
                r.trace = IF matches_ps1_metadata(r.acc1) = << >> THEN TimeoutTrace
                          ELSE <<"command", "read">>
          /\ (r.kind = "exception" /\ r.path # "OSError") => Len(r.trace) \in {2, 4}
          /\ (r.kind = "exception" /\ Len(r.trace) = 2) =>
                matches_ps1_metadata(r.acc1) # << >>
    /\ \A c \in Callers :
          /\ IsPrefix(caller[c].trace, TimeoutTrace)
          /\ caller[c].pc = "interrupt" =>
                /\ caller[c].trace = <<"command", "read">>
                /\ matches_ps1_metadata(caller[c].acc) = << >>
          /\ caller[c].pc = "get" =>
                caller[c].trace = IF caller[c].phase = "primary" THEN <<"command", "read">>
                                  ELSE TimeoutTrace
          /\ (caller[c].pc = "get" /\ caller[c].phase = "secondary") =>
                matches_ps1_metadata(caller[c].acc1) = << >>

\* a call whose primary read captured output but no valid marker has sent
\* the interrupt once and returned the prompt drawn after it
C24_Witness ==
    \E r \in ResultsReturned :
        /\ r.kind = "result"
        /\ r.path = "timeout"
        /\ r.acc1 # << >>
        /\ r.trace = <<"command", "read", "^C", "read">>
        /\ matches_ps1_metadata(r.acc2) # << >>
        /\ r.metadata.working_dir # None

\* the sentinel pairs of a text whose interior is one JSON document
JsonPairs(text) ==
    {i \in DOMAIN finditer(text, 1) :
        \E g \in {strip(finditer(text, 1)[i].group1)} : Len(g) = 1 /\ g[1] \in JsonSymbols}

\* the text holds sentinel pairs, and none of them around a JSON document
OnlyInvalidPairs(text) == finditer(text, 1) # << >> /\ JsonPairs(text) = {}

\* C25: a sentinel pair whose interior is not JSON does not count as a
\* match.  A read ends without a pair around a JSON document only when its
\* time is up: the primary read after the caller's timeout, the secondary
\* after the kill timeout.  A result has a marker's metadata only when the
\* read that gave it held such a pair, and a decoding error leaves the
\* call only from a read that held one.
C25_InvalidPairIgnored ==
    /\ \A c \in Callers :
          /\ caller[c].pc = "get" => JsonPairs(caller[c].acc) = {}
          /\ caller[c].pc = "interrupt" =>
                /\ JsonPairs(caller[c].acc) = {}
                /\ caller[c].readElapsed >= caller[c].timeout
    /\ \A r \in ResultsReturned :
          /\ (r.kind = "result" /\ r.path = "success") => JsonPairs(r.acc1) # {}
          /\ (r.kind = "result" /\ r.path = "timeout") =>
                /\ JsonPairs(r.acc1) = {}
                /\ r.elapsed >= r.timeout
                /\ JsonPairs(r.acc2) = {} =>
                      /\ r.elapsed >= r.timeout + KILL_TIMEOUT
                      /\ r.metadata = CmdOutputMetadata(TIMEOUT_EXIT_CODE, None, None, None, None)
                      /\ r.output = r.acc1 \o r.acc2 \o <<"n", "T", "n">>
          /\ (r.kind = "exception" /\ r.path # "OSError") =>
                JsonPairs(IF Len(r.trace) = 2 THEN r.acc1 ELSE r.acc2) # {}

\* a call with a timeout above zero whose primary read accumulated a
\* sentinel pair around text that is no JSON: the read ran until the
\* timeout, the pair is part of the output and the metadata is the fallback
C25_Witness ==
    \E r \in ResultsReturned :
        /\ r.kind = "result"
        /\ r.path = "timeout"
        /\ r.timeout > 0
        /\ OnlyInvalidPairs(r.acc1)
        /\ r.acc2 = << >>
        /\ r.metadata.working_dir = None
        /\ \E i \in DOMAIN r.output : r.output[i] = "B"

\* the text holds nothing of what was printed before the call started
Fresh(text) == \A i \in DOMAIN text : text[i] \notin {"s", "i2"}

\* C26: what is in the queue when a call starts is gone from the queue
\* before the call sends its command, and is in no text the call reads and
\* in no output or metadata it returns.
C26_StaleDiscarded ==
    /\ \A c \in Callers :
          /\ caller[c].pc \in {"send", "get", "interrupt"} =>
                \A i \in DOMAIN queue : Fresh(queue[i])
          /\ Fresh(caller[c].acc) /\ Fresh(caller[c].acc1) /\ Fresh(caller[c].output)
    /\ shell.stdin # << >> => \A i \in DOMAIN queue : Fresh(queue[i])
    /\ \A r \in ResultsReturned :
          /\ Fresh(r.output) /\ Fresh(r.acc1) /\ Fresh(r.acc2)
          /\ r.metadata.working_dir # "/d2"

\* a call that started with the stale chunk in the queue has returned the
\* output and the prompt of its own command
C26_Witness ==
    \E r \in ResultsReturned :
        /\ r.kind = "result"
        /\ r.path = "success"
        /\ r.output[1] = OutputSymbol(r.call)
        /\ r.metadata.working_dir = pwd(ChangeDir(r.call, 0))
        /\ config.stale = <<StaleChunk>>

\* the text a call has accumulated in the read it was in at frame f, after
\* the step to caller' and results'
AccumulatedAfter(c, f) ==
    IF caller'[c].pc # "idle" THEN caller'[c].acc
    ELSE IF f.phase = "primary" THEN results'[Len(results')].acc1
    ELSE results'[Len(results')].acc2

\* C27: only the stream reader adds to the queue: a step that lengthens
\* the queue is a step of the running reader that appends, as one chunk,
\* the non-empty bytes it takes from the head of the channel, at most
\* RECV_SIZE of them, and changes nothing else; the reader stops once,
\* on an empty read or an error, and nothing is added after that.  A step
\* that shortens the queue takes its head, and a reading call appends the
\* decoding of that chunk to its text; no other step changes the queue, and
\* the channel otherwise only grows at its tail.  The running reader can
\* always put what the channel holds, however long the queue is.
C27_ReaderOnlyProducer ==
  /\ []((InUse /\ reader = "running" /\ chan # << >>) => ENABLED ReaderRecv)
  /\
    [][/\ Len(queue') > Len(queue) =>
             /\ reader = "running" /\ reader' = "running"
             /\ Len(chan') < Len(chan)
             /\ Len(chan) - Len(chan') <= RECV_SIZE
             /\ queue' = Append(queue, SubSeq(chan, 1, Len(chan) - Len(chan')))
             /\ chan' = SubSeq(chan, Len(chan) - Len(chan') + 1, Len(chan))
             /\ UNCHANGED <<caller, results, shell>>
       /\ Len(queue') < Len(queue) =>
             /\ queue' = Tail(queue)
             /\ UNCHANGED <<chan, reader>>
             /\ \E c \in Callers :
                   /\ caller[c].pc \in {"drainget", "get"}
                   /\ caller'[c] # caller[c]
                   /\ caller[c].pc = "get" =>
                         AccumulatedAfter(c, caller[c]) = caller[c].acc \o decode(Head(queue))
       /\ Len(queue') = Len(queue) => queue' = queue
       /\ (chan' # chan /\ queue' = queue) =>
             \/ reader = "running" /\ reader' = "running"
                   /\ Len(chan') > Len(chan) /\ SubSeq(chan', 1, Len(chan)) = chan
             \/ reader = "running" /\ reader' = "error" /\ chan' = << >>
       /\ reader' # reader =>
             /\ reader = "running"
             /\ reader' \in {"eof", "error"}
             /\ queue' = queue
       /\ reader' = "eof" => chan' = << >>]_vars

\* the reader has put two chunks, in the order it read them, while a call
\* was reading: the call got the first, the second is still queued
C27_Witness ==
    /\ reader = "running"
    /\ \E c \in Callers :
          /\ caller[c].pc = "get"
          /\ caller[c].acc # << >>
          /\ caller[c].acc[1] = OutputSymbol(caller[c].call)
    /\ Len(queue) = 1
    /\ \E i \in DOMAIN queue[1] : queue[1][i] = "E"

\* C6 (as claimed): when the calls are made one after the other, the k-th
\* result holds output printed by the k-th command only, and a success-path
\* result holds the prompt drawn when the k-th command ended.
C6_Original ==
    \A r \in ResultsReturned :
        r.kind = "result" =>
            /\ \A j \in DOMAIN r.output :
                  r.output[j] \in {"o1", "o2", "o3"} => r.output[j] = OutputSymbol(r.call)
            /\ (r.path = "success" /\ r.metadata.exit_code # 130) =>
                  r.metadata.exit_code = int_float_str(ExitStatus(r.call)).int

\* the directory of the session's bash once the commands of calls 1..k have
\* run, one after the other
RECURSIVE DirAfter(_)
DirAfter(k) == IF k = 0 THEN 0 ELSE ChangeDir(k, DirAfter(k - 1))

\* C11 (as claimed): the calls of a session run in one persistent shell: a
\* success-path result has the exit code of the command just run and the
\* directory the shell is in after the commands of all calls so far, so a
\* directory change is reported by every later call and a failing command
\* leaves the directory as it was.
C11_Original ==
    \A r \in ResultsReturned :
        (r.kind = "result" /\ r.path = "success") =>
            /\ r.metadata.exit_code = int_float_str(ExitStatus(r.call)).int
            /\ r.metadata.working_dir = pwd(DirAfter(r.call))

\* C7 (as claimed): a call that starts after the stream reader has exited
\* returns a result through the timeout path, with exit code 124, and does
\* not raise.
C7_Original ==
    \A r \in ResultsReturned :
        r.readerAtStart # "running" =>
            /\ r.kind = "result"
            /\ r.path = "timeout"
            /\ r.metadata.exit_code = TIMEOUT_EXIT_CODE

\* C9: nothing serializes the calls of two threads: a thread may start a
\* call while another's is in flight, and any call in flight may test the
\* one queue, drain the chunk at its head, whichever command printed it, and
\* send its bytes.
C9_NoSerialization ==
    \A c \in config.threads :
        /\ (caller[c].pc = "idle" /\ calls < config.calls) => ENABLED SendCommand(c)
        /\ caller[c].pc = "drain" => ENABLED DrainTest(c)
        /\ (caller[c].pc = "drainget" /\ queue # << >>) => ENABLED DrainGet(c)
        /\ caller[c].pc = "send" => ENABLED Transmit(c)

\* a call has returned, on its success path, the prompt of the other
\* thread's command while that thread's call is still in flight
C9_Witness ==
    \E r \in ResultsReturned : \E c \in Callers :
        /\ caller[c].pc = "get"
        /\ caller[c].call # r.call
        /\ r.kind = "result"
        /\ r.path = "success"
        /\ r.metadata.exit_code = int_float_str(ExitStatus(caller[c].call)).int
        /\ r.metadata.exit_code # int_float_str(ExitStatus(r.call)).int

(***************************************************************************)
(* Claims about teardown, checked under SpecLife.                          *)
(***************************************************************************)
\* C8 (as claimed): cleanup() never raises, and once the container has been
\* stopped and removed by a cleanup() call, no later cleanup() call, the one
\* made by __del__ included, stops or removes it again.
C8_Original ==
    [][/\ life'.raised = "none"
       /\ life.stopped => (life'.stops = life.stops /\ life'.removes = life.removes)]_vars

\* C40 (as claimed): when __init__ raised after start_session had started
\* the container, the container has been stopped and removed by the time
\* the half-built object has been collected: start_session holds the only
\* other reference to the container and makes no call on it, so __del__ is
\* the last code that can.
C40_Original ==
    (life.object = "partial" /\ life.deleted) =>
        (life.container = "removed" /\ life.stops > 0 /\ life.removes > 0)

(***************************************************************************)
(* Claims about to_observation, checked under SpecSanitize.                *)
(***************************************************************************)
\* C19 (as claimed): the sanitizer is idempotent: rendering a result whose
\* output is an already sanitized text leaves that text as it is.
C19_Original ==
    pure.op = "again" => pure.out = Rendering(pure.input.output, pure.input.metadata)

(***************************************************************************)
(* Claims about the stage loops, checked under SpecLoop.                   *)
(***************************************************************************)
\* the turns after the prefix
TailOf(l) == SubSeq(l.messages, l.prefix_messages + 1, Len(l.messages))

\* C12: whenever a stage invokes the agent, the context it sends is the
\* prefix as it was before the loop, then (organize_setup only) one turn
\* with the commands run so far, then the min(W, tail length) most recent
\* turns of the tail in their order.
C12_WindowedContext ==
    [][loop'.invoked # loop.invoked =>
          \E n \in {Min(CONVERSATION_WINDOW(loop.stage), Len(TailOf(loop)))} :
             loop'.input =
                PrefixMessages
                   \o (IF loop.stage = "setup"
                       THEN <<Turn("human", "commands_history", << >>, loop.commands)>>
                       ELSE << >>)
                   \o SubSeq(TailOf(loop), Len(TailOf(loop)) - n + 1, Len(TailOf(loop)))]_vars

\* generate_log_parser has invoked the agent with a tail of W + 1 turns:
\* the input held W of them and not the oldest
C12_Witness ==
    /\ loop.stage = "parselog"
    /\ loop.pc = "loop"
    /\ Len(TailOf(loop)) = PARSELOG_CONVERSATION_WINDOW + 3
    /\ Len(loop.input) = loop.prefix_messages + PARSELOG_CONVERSATION_WINDOW
    /\ loop.input[loop.prefix_messages + 1] = loop.messages[loop.prefix_messages + 2]
    /\ loop.input[loop.prefix_messages + 1] # loop.messages[loop.prefix_messages + 1]

\* the blocks of a reply whose tag the stage's parse method looks for
RecognizedBlocks(stage, reply) ==
    {i \in DOMAIN reply : \E k \in DOMAIN TagOrder(stage) : reply[i].tag = TagOrder(stage)[k]}

\* C13 (as claimed): a reply of the agent parses to an action exactly when
\* one recognized tag block is present in it; with none or with more than
\* one the parse gives no action.
C13_Original ==
    \A i \in DOMAIN loop.messages :
        loop.messages[i].role = "ai" =>
            (parse(loop.stage, loop.messages[i].reply, 1) # NoAction
                <=> Cardinality(RecognizedBlocks(loop.stage, loop.messages[i].reply)) = 1)

\* what a stage has stored or handed out: the session commands, searches
\* and judgements made, the stored commands, parsers, test data,
\* submissions and answer
Dispatched(l) ==
    <<l.sent, l.searched, l.verdicts, l.commands, l.parser, l.improved_parser,
      l.analysis_result, l.test_output, l.test_status, l.test_command,
      l.print_command, l.submitted_steps, l.answer>>

\* C14: an iteration whose reply gives no action dispatches nothing and
\* stores nothing, appends the reply and a format reminder to the tail,
\* takes one step, and leaves the loop running with nothing raised.
C14_ParseFailureStep ==
    [][(/\ loop'.invoked # loop.invoked
        /\ parse(loop.stage, loop'.messages[Len(loop.messages) + 1].reply, 1) = NoAction)
         => /\ Dispatched(loop') = Dispatched(loop)
            /\ loop'.messages =
                  loop.messages
                     \o <<Turn("ai", "response", loop'.messages[Len(loop.messages) + 1].reply, << >>),
                          Turn("human", "reminder", << >>, <<"format">>)>>
            /\ loop'.step = loop.step + 1
            /\ loop'.pc = "loop"
            /\ loop'.ret = loop.ret]_vars

\* a reply without a block was answered by the reminder, after a command
\* had been run
C14_Witness ==
    /\ loop.pc = "loop"
    /\ loop.step >= 2
    /\ loop.sent # << >>
    /\ loop.messages[Len(loop.messages)].kind = "reminder"
    /\ loop.messages[Len(loop.messages) - 1].role = "ai"
    /\ loop.messages[Len(loop.messages) - 1].reply = << >>

\* every reply the agent has given so far gave no action
AllUnparsable(l) ==
    \A i \in DOMAIN l.messages :
        l.messages[i].role = "ai" => parse(l.stage, l.messages[i].reply, 1) = NoAction

\* the format reminders in the conversation
Reminders(l) == {i \in DOMAIN l.messages : l.messages[i].kind = "reminder"}

\* C15: when no reply of the agent gives an action and the clock stays
\* within the timeout, the loop has made as many invocations and reminders
\* as steps while it runs, and has made exactly max_steps of each when the
\* stage returns, with no answer and nothing raised.
C15_ExactlyMaxSteps ==
    (AllUnparsable(loop) /\ ~deadline_passed(loop)) =>
        /\ loop.invoked = loop.step
        /\ Cardinality(Reminders(loop)) = loop.step
        /\ loop.step <= loop.max_steps
        /\ loop.pc = "returned" =>
              /\ loop.step = loop.max_steps
              /\ loop.answer = << >>
              /\ loop.ret.exception = "none"

\* organize_test_cmd has returned after MaxSteps replies without action
C15_Witness ==
    /\ loop.stage = "verify"
    /\ loop.pc = "returned"
    /\ loop.max_steps = MaxSteps
    /\ loop.invoked = MaxSteps
    /\ AllUnparsable(loop)
    /\ ~deadline_passed(loop)

\* the reply the agent gave in the step from l to m
ReplyOf(l, m) == m.messages[Len(l.messages) + 1].reply

\* C16: in organize_setup an iteration whose reply is a submit runs the
\* submitted commands once through the session and asks the judge once;
\* the stage returns, with the submitted commands as its answer, exactly
\* when the judge answered SUCCESS; on another answer the loop goes on with
\* a verification turn that holds the submitted commands and the rendered
\* output; the iteration takes one step of max_steps like any other, and
\* the steps never exceed max_steps.
C16_SubmitVerified ==
    [][(/\ loop.stage = "setup"
        /\ loop'.invoked # loop.invoked
        /\ parse(loop.stage, ReplyOf(loop, loop'), 1).action = "submit")
         => \E submitted \in {parse(loop.stage, ReplyOf(loop, loop'), 1).args} :
               /\ loop'.sent = Append(loop.sent, submitted)
               /\ Len(loop'.verdicts) <= Len(loop.verdicts) + 1
               /\ loop'.ret.exception = "none" => Len(loop'.verdicts) = Len(loop.verdicts) + 1
               /\ loop'.step = loop.step + 1
               /\ loop'.step <= loop.max_steps
               /\ loop'.invoked <= loop.max_steps
               /\ (loop'.pc = "returned" /\ loop'.ret.exception = "none")
                     <=> loop'.verdicts = Append(loop.verdicts, "SUCCESS")
               /\ loop'.answer # << >>
                     <=> loop'.verdicts = Append(loop.verdicts, "SUCCESS")
               /\ loop'.answer # << >> =>
                     /\ loop'.answer = <<submitted>>
                     /\ loop'.ret.setup_commands = <<submitted>>
                     /\ loop'.ret.success
               /\ loop'.verdicts = Append(loop.verdicts, "FAILURE") =>
                     /\ loop'.pc = "loop"
                     /\ Len(loop'.messages) = Len(loop.messages) + 2
                     /\ \E turn \in {loop'.messages[Len(loop'.messages)]} :
                           /\ turn.kind = "verification"
                           /\ SubSeq(turn.content, 1, 2) = <<"submitted", submitted>>
                           /\ \E result \in SessionResults :
                                 SubSeq(turn.content, 3, Len(turn.content))
                                    = to_observation(result, TRUE)]_vars

\* a submit was rejected in the last step of the budget: the loop is still
\* running, the verification turn is the last of the tail
C16_Witness ==
    /\ loop.stage = "setup"
    /\ loop.pc = "loop"
    /\ loop.step = loop.max_steps
    /\ loop.verdicts = <<"FAILURE">>
    /\ loop.messages[Len(loop.messages)].kind = "verification"

\* the turns of the conversation in which the agent submitted
SubmitTurns(l) ==
    {i \in DOMAIN l.messages :
        /\ l.messages[i].role = "ai"
        /\ parse(l.stage, l.messages[i].reply, 1).action = "submit"}

\* C17: when the judge of organize_setup rejected the first submission and
\* accepted the second, the stage has returned after exactly two submit
\* iterations, with success, and its setup_commands are the second
\* submission, the one of the last turn.
C17_SecondSubmitAccepted ==
    (loop.stage = "setup" /\ loop.verdicts = <<"FAILURE", "SUCCESS">>) =>
        /\ loop.pc = "returned"
        /\ loop.ret.exception = "none"
        /\ loop.ret.success
        /\ Cardinality(SubmitTurns(loop)) = 2
        /\ Len(loop.messages) \in SubmitTurns(loop)
        /\ loop.ret.setup_commands =
              <<parse(loop.stage, loop.messages[Len(loop.messages)].reply, 1).args>>
        /\ loop.answer = loop.ret.setup_commands

\* the submission "a" was rejected and the submission "b" accepted
C17_Witness ==
    /\ loop.stage = "setup"
    /\ loop.verdicts = <<"FAILURE", "SUCCESS">>
    /\ \E i \in SubmitTurns(loop) : loop.messages[i].reply = <<Block("submit", "a")>>
    /\ loop.ret.setup_commands = <<"b">>

\* the step from l to m is the return of a stage whose loop ended on its
\* while test or on its deadline test, no iteration made
LoopEnds(l, m) == l.pc = "loop" /\ m.pc = "returned" /\ m.invoked = l.invoked

\* C18 (as claimed): a stage whose loop ends because the steps are used up
\* or the deadline has passed returns without an answer and without an
\* error: success is false, there is no exception entry, setup_commands is
\* empty, and no agent invocation or session command is made on the way.
C18_Original ==
    [][LoopEnds(loop, loop') =>
          /\ loop'.answer = << >>
          /\ ~loop'.ret.success
          /\ "exception" \notin loop'.ret.keys
          /\ loop'.ret.setup_commands = << >>
          /\ loop'.sent = loop.sent]_vars

\* C18 (amended): a stage whose loop ends because the steps are used up or
\* the deadline has passed returns without an answer and without an
\* exception entry, setup_commands is empty, and no agent invocation or
\* session command is made on the way; organize_setup and
\* generate_log_parser return success false, organize_test_cmd returns
\* success true exactly when it holds a submitted test command, a parser
\* and a test status that is not empty.
C18_EndsIncomplete ==
    [][LoopEnds(loop, loop') =>
          /\ loop'.answer = << >>
          /\ "exception" \notin loop'.ret.keys
          /\ loop'.ret.setup_commands = << >>
          /\ loop'.sent = loop.sent
          /\ loop.stage # "verify" => ~loop'.ret.success
          /\ loop.stage = "verify" =>
                (loop'.ret.success <=> /\ loop.test_command # ""
                                       /\ loop.parser # ""
                                       /\ StatusFound(loop.test_status))]_vars

\* organize_setup has returned on its deadline, steps left, after it had
\* run commands and had a submission rejected
C18_Witness ==
    /\ loop.stage = "setup"
    /\ loop.pc = "returned"
    /\ loop.step < loop.max_steps
    /\ deadline_passed(loop)
    /\ loop.ret.exception = "none"
    /\ loop.answer = << >>
    /\ loop.sent # << >>
    /\ ~loop.ret.success

\* C20: an iteration that ran a command of the agent appends, as its
\* observation, the rendering of the result with the escape sequences and
\* carriage returns of its output removed and a long output cut, and what
\* organize_test_cmd keeps as test_output is the output of that same
\* result as the session returned it.
C20_RenderedAndRaw ==
    [][(/\ loop'.invoked # loop.invoked
        /\ parse(loop.stage, ReplyOf(loop, loop'), 1).action = "command"
        /\ loop'.pc = "loop")
         => \E result \in SessionResults :
               /\ loop'.messages[Len(loop'.messages)].content
                     = Rendering(sanitize(result.output, TRUE), result.metadata)
               /\ loop.stage = "verify" => loop'.test_output = result.output]_vars

\* organize_test_cmd keeps an output with an escape sequence and a
\* carriage return in it, and the observation of it is cut
C20_Witness ==
    /\ loop.stage = "verify"
    /\ loop.pc = "loop"
    /\ loop.sent # << >>
    /\ \E i \in DOMAIN loop.test_output : loop.test_output[i] = "e"
    /\ \E i \in DOMAIN loop.test_output : loop.test_output[i] = "r"
    /\ \E turn \in {loop.messages[Len(loop.messages)]} :
          /\ turn.kind = "observation"
          /\ \E i \in DOMAIN turn.content : turn.content[i] = "S"
          /\ \A i \in DOMAIN turn.content : turn.content[i] \notin {"e", "r"}

(***************************************************************************)
(* Claims about the decoding of one marker, checked under SpecMarker.      *)
(***************************************************************************)
\* C21 (as claimed): decoding a valid marker whose document is an object of
\* prompt fields never fails on the exit code: exit_code is -1 when the
\* member is absent or its value does not convert to an integer
\* (non-numeric text, null, a non-finite number), and the integer otherwise.
C21_Original ==
    (/\ pure.op = "read"
     /\ PureMatches # << >>
     /\ LastMarkerDoc.kind = "dict"
     /\ LastMarkerDoc.keys \subseteq PromptFields) =>
        /\ pure.out.raises = "none"
        /\ pure.out.metadata.exit_code =
              IF "exit_code" \notin LastMarkerDoc.keys THEN -1
              ELSE IF LastMarkerDoc.val["exit_code"] \in {"abc", "None", "inf"} THEN -1
              ELSE int_float_str(LastMarkerDoc.val["exit_code"]).int

\* C22 (as claimed): in organize_test_cmd every iteration in which the
\* session and the parser runner do not fail ends with an observation
\* appended and the loop running, or with the stage returned on an accepted
\* submit; none ends the stage with an exception.  In particular a submit
\* made after the third submit was rejected is answered with an
\* observation and the loop goes on.
C22_Original ==
    [][(/\ loop.stage = "verify"
        /\ loop'.invoked # loop.invoked
        /\ loop'.ret.exception \notin {"send_command", "run_parser"})
         => /\ loop'.ret.exception = "none"
            /\ \/ /\ loop'.pc = "loop"
                  /\ Len(loop'.messages) = Len(loop.messages) + 2
                  /\ loop'.messages[Len(loop'.messages)].role = "human"
               \/ /\ loop'.pc = "returned"
                  /\ loop'.answer # << >>
                  /\ parse(loop.stage, ReplyOf(loop, loop'), 1).action = "submit"
            /\ (/\ parse(loop.stage, ReplyOf(loop, loop'), 1).action = "submit"
                /\ loop.submitted_steps >= 3)
                  => /\ loop'.pc = "loop"
                     /\ loop'.messages[Len(loop'.messages)].kind = "observation"]_vars

(***************************************************************************)
(* Claims about the accumulation of chunks, checked under SpecChunks.      *)
(***************************************************************************)
\* C28 (as claimed): a character whose bytes are split across two
\* consecutive chunks is not lost: the accumulated text is the decoding
\* of the concatenation of the chunks read.
C28_Original ==
    pure.op = "get" => pure.out = decode(Flatten(pure.read))

\* C29: in each stage the step counter starts at 0 and a step of the loop
\* leaves it as it is or adds one to it; the agent is invoked once in a
\* step that adds one and not at all in another, so the invocations made
\* equal the steps taken, which never exceed max_steps (none is made when
\* max_steps is 0); an iteration appends one reply of the agent, and a
\* returned stage takes no further step.
C29_StepsAndInvocations ==
    /\ loop.step = 0 /\ loop.invoked = 0
    /\ [](/\ loop.invoked = loop.step
          /\ loop.step <= loop.max_steps
          /\ loop.max_steps = 0 => loop.invoked = 0)
    /\ [][/\ loop'.step \in {loop.step, loop.step + 1}
          /\ loop'.invoked - loop.invoked = loop'.step - loop.step
          /\ loop'.max_steps = loop.max_steps
          /\ loop.pc = "loop"
          /\ loop'.step = loop.step + 1 =>
                /\ Len(loop'.messages) \in {Len(loop.messages) + 1, Len(loop.messages) + 2}
                /\ loop'.messages[Len(loop.messages) + 1].role = "ai"
                /\ \A i \in (Len(loop.messages) + 2)..Len(loop'.messages) :
                      loop'.messages[i].role = "human"
          /\ loop'.step = loop.step => loop'.pc = "returned" /\ loop'.messages = loop.messages]_vars

\* organize_setup has used up its MaxSteps steps with commands of the
\* agent and returned without an answer
C29_Witness ==
    /\ loop.stage = "setup"
    /\ loop.pc = "returned"
    /\ loop.max_steps = MaxSteps
    /\ loop.step = MaxSteps
    /\ loop.invoked = MaxSteps
    /\ Len(loop.commands) = MaxSteps
    /\ loop.ret.exception = "none"
    /\ loop.answer = << >>


\* C30: analyze_verification_with_llm gives a boolean for every outcome of
\* the invocation of the judge: in organize_setup a submit whose commands
\* ran is approved exactly when the judge answered SUCCESS, and when the
\* invocation of the judge raised the submit is settled by a boolean as
\* well, so the stage is never aborted by its judge.
C30_Original ==
    [][(/\ loop.stage = "setup"
        /\ Len(loop'.verdicts) = Len(loop.verdicts) + 1)
         => \E verdict \in {loop'.verdicts[Len(loop'.verdicts)]} :
               /\ loop'.ret.exception = "none"
               /\ loop'.answer # << >> <=> verdict = "SUCCESS"
               /\ loop'.answer = << >> =>
                     /\ loop'.pc = "loop"
                     /\ loop'.messages[Len(loop'.messages)].kind = "verification"]_vars


(***************************************************************************)
(* Claims about the actions of the stages, checked under SpecLoop.         *)
(***************************************************************************)
\* the parser scripts the agent has had executed: the python turns that
\* were answered with the result of run_parser
ExecutedParsers(l) ==
    {i \in DOMAIN l.messages :
        /\ l.messages[i].role = "ai"
        /\ parse(l.stage, l.messages[i].reply, 1).action = "python"
        /\ i < Len(l.messages)
        /\ l.messages[i + 1].content[1] = "python"}

\* C31: in organize_test_cmd the payload of the first submit becomes
\* test_command and that of the second print_command, no later submit
\* changes either, neither of the first two submits ends the loop, and a
\* submit ends the loop only when it is the third and a parser script has
\* been executed before it and has given a test status.
C31_Original ==
    [][(/\ loop.stage = "verify"
        /\ loop'.invoked # loop.invoked
        /\ parse(loop.stage, ReplyOf(loop, loop'), 1).action = "submit")
         => \E submitted \in {parse(loop.stage, ReplyOf(loop, loop'), 1).args} :
               /\ loop'.submitted_steps = loop.submitted_steps + 1
               /\ loop.submitted_steps = 0 =>
                     loop'.test_command = submitted /\ loop'.pc = "loop"
               /\ loop.submitted_steps = 1 =>
                     loop'.print_command = submitted /\ loop'.pc = "loop"
               /\ loop.submitted_steps >= 1 => loop'.test_command = loop.test_command
               /\ loop.submitted_steps # 1 => loop'.print_command = loop.print_command
               /\ loop'.pc # "loop" =>
                     /\ loop.submitted_steps = 2
                     /\ ExecutedParsers(loop) # {}
                     /\ loop.test_status # ""]_vars


\* the step from l to m is an iteration whose reply is a python action
PythonStep(l, m) ==
    /\ l.stage \in {"verify", "parselog"}
    /\ m.invoked # l.invoked
    /\ parse(l.stage, ReplyOf(l, m), 1).action = "python"

\* the script a stage keeps as its candidate
Candidate(l) == IF l.stage = "verify" THEN l.parser ELSE l.improved_parser

StoredBy(l, s) ==
    {i \in DOMAIN l.messages :
        /\ l.messages[i].role = "ai"
        /\ parse(l.stage, l.messages[i].reply, 1).action = "python"
        /\ parse(l.stage, l.messages[i].reply, 1).args = s}

\* C33: in generate_log_parser a submit ends the loop only when an earlier
\* python action has stored a parser script; a submit without a stored
\* script is answered with a corrective observation and the loop goes on;
\* and the stage reports success only when its loop ended on an accepted
\* submit with a stored, non-empty script.
C33_SubmitNeedsParser ==
    /\ [][(/\ loop.stage = "parselog"
           /\ loop'.invoked # loop.invoked
           /\ parse(loop.stage, ReplyOf(loop, loop'), 1).action = "submit")
            => /\ loop'.improved_parser = loop.improved_parser
               /\ loop.improved_parser = "" =>
                     /\ loop'.pc = "loop"
                     /\ loop'.answer = << >>
                     /\ Len(loop'.messages) = Len(loop.messages) + 2
                     /\ loop'.messages[Len(loop'.messages)].content = <<"no parser">>
               /\ loop'.pc # "loop" =>
                     /\ loop.improved_parser # ""
                     /\ StoredBy(loop, loop.improved_parser) # {}
                     /\ loop'.answer # << >>]_vars
    /\ []((loop.stage = "parselog" /\ loop.pc = "returned" /\ loop.ret.success) =>
             /\ loop.improved_parser # ""
             /\ StoredBy(loop, loop.improved_parser) # {}
             /\ loop.answer # << >>
             /\ Len(loop.messages) \in SubmitTurns(loop))

\* a submit made before any script was stored was answered with the
\* corrective observation, and the stage ended with success on a later one
C33_Witness ==
    /\ loop.stage = "parselog"
    /\ loop.pc = "returned"
    /\ loop.ret.success
    /\ \E i \in DOMAIN loop.messages : loop.messages[i].content = <<"no parser">>
    /\ Cardinality(SubmitTurns(loop)) = 2


\* the last min(W, tail length) turns of the tail of l
Window(l) ==
    SubSeq(TailOf(l),
           Len(TailOf(l)) - Min(CONVERSATION_WINDOW(l.stage), Len(TailOf(l))) + 1,
           Len(TailOf(l)))

\* the loop shape: a loop with steps and time left makes one iteration,
\* which counts a step, sends the context input, appends the reply and then
\* either one human turn, the loop going on, or nothing, the loop being
\* over; a loop without steps or time left returns as it is
LoopShape(l, m, input) ==
    IF loop_condition(l) /\ ~deadline_passed(l)
    THEN /\ m.step = l.step + 1
         /\ m.invoked = l.invoked + 1
         /\ m.input = input
         /\ Len(m.messages) \in {Len(l.messages) + 1, Len(l.messages) + 2}
         /\ SubSeq(m.messages, 1, Len(l.messages)) = l.messages
         /\ m.messages[Len(l.messages) + 1].role = "ai"
         /\ Len(m.messages) = Len(l.messages) + 2 =>
               m.messages[Len(l.messages) + 2].role = "human"
         /\ m.pc = "loop" <=> Len(m.messages) = Len(l.messages) + 2
    ELSE /\ m.pc = "returned"
         /\ m.step = l.step
         /\ m.invoked = l.invoked
         /\ m.messages = l.messages

\* C34 (as claimed): the three stage loops are one loop shape: as a
\* function of max_steps, the deadline, the window and the turns so far,
\* every stage makes the same iterations, sends the same windowed context
\* (the prefix, then the window), appends the same turns in the same order
\* and stops at the same point.
C34_Original ==
    [][loop.pc = "loop" => LoopShape(loop, loop', PrefixMessages \o Window(loop))]_vars

\* C34 (as amended): the three stage loops are one loop shape but for the
\* context: every stage makes the same iterations, appends the same turns
\* in the same order and stops at the same point, and sends the prefix and
\* the window, between which organize_setup, and it alone, puts a turn with
\* the commands run so far.
C34_LoopShape ==
    [][loop.pc = "loop" =>
          LoopShape(loop, loop',
                    PrefixMessages
                       \o (IF loop.stage = "setup"
                           THEN <<Turn("human", "commands_history", << >>, loop.commands)>>
                           ELSE << >>)
                       \o Window(loop))]_vars

\* organize_setup has invoked the agent with a full window and the turn of
\* the commands run before it
C34_Witness ==
    /\ loop.stage = "setup"
    /\ Len(loop.input) = loop.prefix_messages + 1 + SETUP_CONVERSATION_WINDOW
    /\ loop.input[loop.prefix_messages + 1].kind = "commands_history"
    /\ loop.input[loop.prefix_messages + 1].content # << >>
    /\ Len(TailOf(loop)) > SETUP_CONVERSATION_WINDOW


(***************************************************************************)
(* Claims about the save nodes, checked under SpecSave.                    *)
(***************************************************************************)
\* the positions in the trace of the node's calls of one kind
CallsOf(call) == {i \in DOMAIN node.trace : node.trace[i].call = call}

C36_Original ==
    node.fn = "select_base_image" => node.invoked <= 5


\* C37: in every stage loop the conversation only grows: the prefix turns
\* stay as they were, no turn of the tail is removed or moved, the reply of
\* the agent is appended before its action is dispatched (it is there also
\* when the handler raised), and an iteration after which the loop goes on
\* appends exactly two turns, the reply and then one human turn (an
\* observation, a reminder or a failed verification).  After n completed
\* iterations the tail holds 2n turns, or 2n - 1 when the n-th ended the
\* loop with an accepted submit.
C37_AppendOnly ==
    /\ [][loop.pc = "loop" =>
             /\ loop'.prefix_messages = loop.prefix_messages
             /\ Len(loop'.messages) >= Len(loop.messages)
             /\ SubSeq(loop'.messages, 1, Len(loop.messages)) = loop.messages
             /\ loop'.invoked = loop.invoked => loop'.messages = loop.messages
             /\ loop'.invoked # loop.invoked =>
                   /\ loop'.messages[Len(loop.messages) + 1].role = "ai"
                   /\ loop'.messages[Len(loop.messages) + 1].kind = "response"
                   /\ loop'.pc = "loop" =>
                         /\ Len(loop'.messages) = Len(loop.messages) + 2
                         /\ loop'.messages[Len(loop'.messages)].role = "human"
                         /\ loop'.messages[Len(loop'.messages)].kind
                               \in {"observation", "reminder", "verification"}
                   /\ loop'.pc # "loop" => Len(loop'.messages) = Len(loop.messages) + 1]_vars
    /\ [](loop.stage \in Stages =>
             /\ SubSeq(loop.messages, 1, loop.prefix_messages) = PrefixMessages
             /\ loop.pc = "loop" => Len(TailOf(loop)) = 2 * loop.step
             /\ (loop.pc = "returned" /\ loop.ret.exception = "none") =>
                   Len(TailOf(loop)) = IF loop.answer # << >> THEN 2 * loop.step - 1
                                       ELSE 2 * loop.step)

\* organize_setup has returned on the submit of its third iteration, the
\* submit of the second having been rejected: five turns in the tail
C37_Witness ==
    /\ loop.stage = "setup"
    /\ loop.pc = "returned"
    /\ loop.answer # << >>
    /\ loop.step = 3
    /\ Len(TailOf(loop)) = 5
    /\ loop.messages[loop.prefix_messages + 4].kind = "verification"


\* the result of the parser script executed last, as the agent was told it
LastParsed(l) ==
    LET told == {i \in DOMAIN l.messages :
                    l.messages[i].kind = "observation" /\ l.messages[i].content[1] = "python"}
    IN  IF told = {} THEN ""
        ELSE l.messages[CHOOSE i \in told : \A j \in told : j <= i].content[2]

\* C38 (as claimed): organize_test_cmd returns success true only when its
\* loop ended on an accepted submit; a loop that ended because the steps
\* were used up returns success false.
C38_Original ==
    (loop.stage = "verify" /\ loop.pc = "returned" /\ loop.ret.success) =>
        /\ loop.answer # << >>
        /\ Len(loop.messages) \in SubmitTurns(loop)

\* C38 (as amended): organize_test_cmd returns success true exactly when
\* the agent has submitted a test command, a parser script has been
\* executed, and the script executed last found test statuses, whether the
\* loop ended on an accepted submit, on the used-up steps or on the
\* deadline; an accepted submit is not needed for it and does not suffice.
C38_SuccessOfTestCmd ==
    (loop.stage = "verify" /\ loop.pc = "returned") =>
        /\ loop.ret.exception # "none" => ~loop.ret.success
        /\ loop.ret.exception = "none" =>
              (loop.ret.success <=> /\ SubmitTurns(loop) # {}
                                    /\ ExecutedParsers(loop) # {}
                                    /\ LastParsed(loop) = "{t}")
        /\ loop.answer # << >> =>
              /\ Cardinality(SubmitTurns(loop)) = 3
              /\ Len(loop.messages) \in SubmitTurns(loop)

\* organize_test_cmd has used up its steps without a third submit and
\* returns success
C38_Witness ==
    /\ loop.stage = "verify"
    /\ loop.pc = "returned"
    /\ loop.ret.success
    /\ loop.answer = << >>
    /\ loop.step = loop.max_steps
    /\ Cardinality(SubmitTurns(loop)) = 1


(***************************************************************************)
(* Claims about a payload of two commands, checked under SpecMulti.        *)
(***************************************************************************)
\* C39 (as claimed): for a payload of command 1 and command 2 on two lines,
\* sent on a session whose queue was empty, a success-path result is built
\* from the prompt drawn after command 2, the last one: the exit code is
\* that of command 2, the directory is the one command 1 changed to, and
\* the data read holds the prompt of command 2, so all the output before it.
C39_Original ==
    \A r \in ResultsReturned :
        (config.multi /\ config.stale = << >> /\ r.kind = "result" /\ r.path = "success") =>
            /\ r.metadata.exit_code = int_float_str(ExitStatus(2)).int
            /\ r.metadata.working_dir = pwd(ChangeDir(2, ChangeDir(1, 0)))
            /\ \E i \in DOMAIN r.acc1 : r.acc1[i] = EndedPrompt(2, ChangeDir(1, 0))

=============================================================================
